---------------------------- MODULE Spec2Model ----------------------------
(***************************************************************************)
(* A model of the data-parallel examples of BaDaaS/web-learning            *)
(* (examples/rust-wasm): the rayon based sum, quicksort, padded counters,  *)
(* matrix and pixel operations.  Each operation is a state machine of its  *)
(* own (SpecSum, SpecSort, ...), all over the variables declared below; a  *)
(* specification leaves the variables of the other operations at rest.     *)
(***************************************************************************)
EXTENDS Integers, Sequences, FiniteSets, TLC

(***************************************************************************)
(* Bounds of the model.                                                    *)
(***************************************************************************)
\* longest input of parallel_sum
MaxSumLen == 4
\* largest worker pool (rayon::ThreadPoolBuilder::num_threads)
MaxThreads == 2
\* longest slice given to parallel_quicksort, and its largest element
MaxSortLen == 5
MaxSortVal == 2
\* parallel_quicksort's SEQUENTIAL_THRESHOLD (1000 in the source), scaled down
\* so that slices longer than the threshold fit the model
SEQUENTIAL_THRESHOLD == 2
\* longest slice given to avoid_false_sharing, and its largest element
MaxFsLen == 4
MaxFsVal == 2
\* largest matrix dimension, and the number of value patterns of a matrix
MaxDim == 2
MaxSeed == 2
\* most pixels in an RGBA buffer
MaxPixels == 2
\* longest batch given to a batch operation
MaxBatchLen == 2
\* longest input of parallel_find_max
MaxFindLen == 4
\* longest input of the element-wise operations
MaxParLen == 5
\* longest input of the operations run side by side on short inputs
MaxShortLen == 2
\* most tasks of parallel_uneven_work, and the largest task size
MaxTasks == 3
MaxTaskSize == 3
\* longest input of WasmModule, and most calls made on one WasmModule
MaxBytes == 2
MaxCalls == 3

(***************************************************************************)
(* Machine integers.  TLC's integers are 32 bits wide, so the i32          *)
(* arithmetic of the program is written without leaving that range.        *)
(***************************************************************************)
MaxI32 == 2147483647
MinI32 == -2147483647 - 1

\* i32 addition as the release build performs it: modulo 2^32.
WrappingAdd(a, b) ==
    IF a >= 0 /\ b >= 0 /\ b > MaxI32 - a THEN ((a + MinI32) + b) + MinI32
    ELSE IF a < 0 /\ b < 0 /\ b < MinI32 - a THEN ((a - MinI32) + b) - MinI32
    ELSE a + b

\* i32 addition that sticks at the ends of the range (a plausible slip for
\* WrappingAdd: i32::saturating_add).
SaturatingAdd(a, b) ==
    IF a >= 0 /\ b >= 0 /\ b > MaxI32 - a THEN MaxI32
    ELSE IF a < 0 /\ b < 0 /\ b < MinI32 - a THEN MinI32
    ELSE a + b

Min(a, b) == IF a <= b THEN a ELSE b
Max(a, b) == IF a >= b THEN a ELSE b

\* All sequences over S of length 0 .. n.
SeqsUpTo(S, n) == UNION {[1..k -> S] : k \in 0..n}

VARIABLES
    \* ---- parallel sum (data.par_iter().sum())
    sumData,      \* the input slice
    sumThreads,   \* size of the pool the sum runs on
    sumParts,     \* the pieces of the input, in order, each queued or folded
    sumLeaves,    \* how many pieces were folded sequentially
    sumPc,        \* "running" until the call returns, then "returned"
    sumResult,    \* the value returned
    \* ---- parallel_quicksort on a work-stealing pool
    qsInit,       \* the slice as passed in
    qsData,       \* the slice, sorted in place
    qsThreads,    \* size of the pool
    qsTasks,      \* the calls made so far: range <<lo, hi>> -> state
    qsInjector,   \* the pool's global queue
    qsDeque,      \* per worker: its local queue of forked calls
    qsStack,      \* per worker: the calls it is executing, innermost last
    qsPc,         \* "running" until the top-level call returns
    \* ---- avoid_false_sharing
    fsData,       \* the input slice
    fsThreads,    \* rayon::current_num_threads()
    fsCounters,   \* the padded counters, one per thread
    fsPending,    \* the chunks (by index) whose closure has not run yet
    fsWrites,     \* per counter: the chunks that stored into it
    fsPc,         \* "parallel" during for_each, then "returned"
    fsResult,     \* the value returned
    \* ---- matrix multiply and transpose
    mOp,          \* "multiply" or "transpose"
    mImpl,        \* "fn": the free function, "proc": the WasmMatrixProcessor method
    mA, mARows, mACols,   \* the (left) operand and its declared shape
    mB, mBRows, mBCols,   \* the right operand of a multiplication
    mOrig,        \* the matrix given to the first call
    mCalls,       \* how many calls have been made
    mAlloc,       \* whether the output buffer has been allocated
    mResult,      \* the output buffer
    mWrites,      \* per output cell: how many times it was written
    mPending,     \* the chunks of the output whose closure has not run yet
    mRan,         \* the chunks whose closure has run
    mPc,          \* "call", "tasks", "returned" or "panicked"
    mOutcome,     \* "none", "ok", "err_dims" or "err_len"
    \* ---- grayscale and brightness over RGBA pixels
    imgOp,        \* "grayscale" or "brightness"
    imgImpl,      \* "fn": the free function, "proc": the WasmImageProcessor method
    imgFactor,    \* the brightness argument, an f32
    imgOrig,      \* the buffer given to the first call
    imgData,      \* rgba_data: the caller's buffer ("fn" transforms it in place)
    imgBuffer,    \* self.buffer of the WasmImageProcessor
    imgPending,   \* the pixels (by index) whose closure has not run yet
    imgTouched,   \* the pixels whose closure has run, over all calls
    imgPc,        \* "call", "tasks" or "returned"
    imgOutcome,   \* "none", "ok" or "err_len"
    imgOut,       \* the buffer the call hands back
    imgFirst,     \* what the first of two calls handed back
    imgCalls,     \* how many calls have been made
    \* ---- batch operations (process_batch_operation, WasmBatchProcessor)
    bImpl,        \* "fn": process_batch_operation, "proc": WasmBatchProcessor
    bPath,        \* "pool": thread_pool is Some, "seq": the sequential fallback
    bOp,          \* the operation name
    bData,        \* the batch passed in
    bInBuf,       \* self.input_buffer
    bOutBuf,      \* self.output_buffer (for "fn": the Vec being collected)
    bPrevIn,      \* self.input_buffer as it was when the call was made
    bPrevOut,     \* self.output_buffer as it was when the call was made
    bPending,     \* the elements (by index) not yet processed
    bPc,          \* "call", "tasks" or "returned"
    bOutcome,     \* "none", "ok" or "err_unknown"
    bResult,      \* the Vec handed back
    bCalls,       \* how many calls have been made
    \* ---- parallel_find_max (par_iter().copied().max_by(..))
    maxData,      \* the input slice
    maxParts,     \* the pieces of the input, in order, each queued or folded
    maxLeaves,    \* how many pieces were folded sequentially
    maxPc,        \* "running" until the call returns, then "returned"
    maxResult,    \* the Option returned: <<>> is None, <<m>> is Some(m)
    \* ---- element-wise operations on the pool: parallel_map_square,
    \* ---- parallel_filter_transform, parallel_reduce, numa_aware_processing
    pOp,          \* "map_square", "filter_transform", "reduce" or "numa"
    pData,        \* the input slice
    pArg,         \* the threshold of parallel_filter_transform
    pThreads,     \* rayon::current_num_threads()
    pPending,     \* the chunks (by index) whose closure has not run yet
    pOut,         \* per chunk: what its closure produced
    pRan,         \* how many closures have run
    pPc,          \* "call", "tasks" or "returned"
    pResult,      \* the Vec returned; <<x>> for the number that reduce returns
    \* partition called on its own
    ptInit,         \* the slice handed to partition
    ptOut,          \* <<>> before the call, then <<the slice after, the index returned>>
    \* parallel_uneven_work
    uwTasks,      \* the task sizes passed in
    uwSt,         \* per task: "todo", "folded" (result computed), "counted"
    uwCount,      \* completed_count
    uwTicket,     \* per task: the value its fetch_add returned, -1 before
    uwDone,       \* <<index, result>> of the closures that returned, in that order
    uwPc,         \* "idle", "running", "returned"
    uwResult,     \* the Vec returned
    \* WasmModule
    wmCache,      \* processing_cache: key -> bytes
    wmLast,       \* input length -> result of the latest process_data since the last clear
    wmIn,         \* the input of the latest process_data call
    wmOut,        \* what that call returned
    wmPrevIn,     \* the input of the process_data call before it
    wmPrevOut,    \* what that call returned
    wmOp,         \* the latest call: "new", "process", "async", "async_cached", "clear"
    wmPending,    \* the inputs of the futures not yet run, oldest first
    wmResolved,   \* what the latest promise resolved to
    wmCalls       \* how many calls were made

sumVars == <<sumData, sumThreads, sumParts, sumLeaves, sumPc, sumResult>>
qsVars == <<qsInit, qsData, qsThreads, qsTasks, qsInjector, qsDeque, qsStack, qsPc>>

fsVars == <<fsData, fsThreads, fsCounters, fsPending, fsWrites, fsPc, fsResult>>
mVars == <<mOp, mImpl, mA, mARows, mACols, mB, mBRows, mBCols, mOrig, mCalls,
          mAlloc, mResult, mWrites, mPending, mRan, mPc, mOutcome>>

imgVars == <<imgOp, imgImpl, imgFactor, imgOrig, imgData, imgBuffer, imgPending,
            imgTouched, imgPc, imgOutcome, imgOut, imgFirst, imgCalls>>

bVars == <<bImpl, bPath, bOp, bData, bInBuf, bOutBuf, bPrevIn, bPrevOut, bPending,
          bPc, bOutcome, bResult, bCalls>>

maxVars == <<maxData, maxParts, maxLeaves, maxPc, maxResult>>

pVars == <<pOp, pData, pArg, pThreads, pPending, pOut, pRan, pPc, pResult>>

ptVars == <<ptInit, ptOut>>

uwVars == <<uwTasks, uwSt, uwCount, uwTicket, uwDone, uwPc, uwResult>>

wmVars == <<wmCache, wmLast, wmIn, wmOut, wmPrevIn, wmPrevOut, wmOp, wmPending,
           wmResolved, wmCalls>>

vars == <<sumVars, qsVars, fsVars, mVars, imgVars, bVars, maxVars, pVars, ptVars, uwVars, wmVars>>

\* The variables that an operation leaves alone: those of the other operations.
besidesSum == <<qsVars, fsVars, mVars, imgVars, bVars, maxVars, pVars, ptVars, uwVars, wmVars>>
besidesSort == <<sumVars, fsVars, mVars, imgVars, bVars, maxVars, pVars, ptVars, uwVars, wmVars>>
besidesFs == <<sumVars, qsVars, mVars, imgVars, bVars, maxVars, pVars, ptVars, uwVars, wmVars>>
besidesMatrix == <<sumVars, qsVars, fsVars, imgVars, bVars, maxVars, pVars, ptVars, uwVars, wmVars>>
besidesImage == <<sumVars, qsVars, fsVars, mVars, bVars, maxVars, pVars, ptVars, uwVars, wmVars>>
besidesBatch == <<sumVars, qsVars, fsVars, mVars, imgVars, maxVars, pVars, ptVars, uwVars, wmVars>>
besidesMax == <<sumVars, qsVars, fsVars, mVars, imgVars, bVars, pVars, ptVars, uwVars, wmVars>>
besidesPar == <<sumVars, qsVars, fsVars, mVars, imgVars, bVars, maxVars, ptVars, uwVars, wmVars>>
besidesPartition == <<sumVars, qsVars, fsVars, mVars, imgVars, bVars, maxVars, pVars, uwVars, wmVars>>
besidesUneven == <<sumVars, qsVars, fsVars, mVars, imgVars, bVars, maxVars, pVars, ptVars, wmVars>>
besidesModule == <<sumVars, qsVars, fsVars, mVars, imgVars, bVars, maxVars, pVars, ptVars, uwVars>>

\* The brightness argument of a call that takes none.
NoFactor == [k |-> "none", s |-> 1, m |-> 0, e |-> 0]

\* The variables of an operation that is not running.
SumIdle ==
    /\ sumData = <<>> /\ sumThreads = 1 /\ sumParts = <<>>
    /\ sumLeaves = 0 /\ sumPc = "idle" /\ sumResult = 0

QsIdle ==
    /\ qsInit = <<>> /\ qsData = <<>> /\ qsThreads = 1 /\ qsTasks = <<>>
    /\ qsInjector = <<>> /\ qsDeque = <<>> /\ qsStack = <<>> /\ qsPc = "idle"

FsIdle ==
    /\ fsData = <<>> /\ fsThreads = 1 /\ fsCounters = <<>> /\ fsPending = {}
    /\ fsWrites = <<>> /\ fsPc = "idle" /\ fsResult = 0

MIdle ==
    /\ mOp = "none" /\ mImpl = "none" /\ mA = <<>> /\ mARows = 0 /\ mACols = 0
    /\ mB = <<>> /\ mBRows = 0 /\ mBCols = 0 /\ mOrig = <<>> /\ mCalls = 0
    /\ mAlloc = FALSE /\ mResult = <<>> /\ mWrites = <<>> /\ mPending = {}
    /\ mRan = {} /\ mPc = "idle" /\ mOutcome = "none"

ImgIdle ==
    /\ imgOp = "none" /\ imgImpl = "none" /\ imgFactor = NoFactor /\ imgOrig = <<>>
    /\ imgData = <<>> /\ imgBuffer = <<>> /\ imgPending = {} /\ imgTouched = {}
    /\ imgPc = "idle" /\ imgOutcome = "none" /\ imgOut = <<>> /\ imgFirst = <<>>
    /\ imgCalls = 0

BIdle ==
    /\ bImpl = "none" /\ bPath = "none" /\ bOp = "none" /\ bData = <<>>
    /\ bInBuf = <<>> /\ bOutBuf = <<>> /\ bPrevIn = <<>> /\ bPrevOut = <<>>
    /\ bPending = {} /\ bPc = "idle" /\ bOutcome = "none" /\ bResult = <<>>
    /\ bCalls = 0

MaxIdle ==
    /\ maxData = <<>> /\ maxParts = <<>> /\ maxLeaves = 0 /\ maxPc = "idle"
    /\ maxResult = <<>>

PIdle ==
    /\ pOp = "none" /\ pData = <<>> /\ pArg = 0 /\ pThreads = 1 /\ pPending = {}
    /\ pOut = <<>> /\ pRan = 0 /\ pPc = "idle" /\ pResult = <<>>

PtIdle ==
    /\ ptInit = <<>> /\ ptOut = <<>>

UwIdle ==
    /\ uwTasks = <<>> /\ uwSt = <<>> /\ uwCount = 0 /\ uwTicket = <<>>
    /\ uwDone = <<>> /\ uwPc = "idle" /\ uwResult = <<>>

WmIdle ==
    /\ wmCache = <<>> /\ wmLast = <<>> /\ wmIn = <<>> /\ wmOut = <<>>
    /\ wmPrevIn = <<>> /\ wmPrevOut = <<>> /\ wmOp = "idle" /\ wmPending = <<>>
    /\ wmResolved = <<>> /\ wmCalls = 0

(***************************************************************************)
(* Parallel sum: data.par_iter().sum() against data.iter().sum().          *)
(***************************************************************************)
SumVals == {MinI32, -1, 1, MaxI32}

\* <i32 as Sum>::sum over a slice: a left fold from 0.
RECURSIVE SeqSum(_)
SeqSum(s) ==
    IF s = <<>> THEN 0
    ELSE WrappingAdd(SeqSum(SubSeq(s, 1, Len(s) - 1)), s[Len(s)])

\* The combiner of the parallel sum: the partial sums of two pieces added.
SumCombine(a, b) == WrappingAdd(a, b)

\* The partial sum of the piece [lo, hi) of the input (0-based, half open),
\* folded from the identity 0 with the combiner.
RECURSIVE SumFoldRange(_, _, _)
SumFoldRange(s, lo, hi) ==
    IF hi <= lo THEN 0
    ELSE SumCombine(SumFoldRange(s, lo, hi - 1), s[hi])

SumPart(lo, hi, st, val, splits) ==
    [lo |-> lo, hi |-> hi, st |-> st, val |-> val, splits |-> splits]

SumInit ==
    /\ QsIdle /\ FsIdle /\ MIdle /\ ImgIdle /\ BIdle /\ MaxIdle /\ PIdle /\ PtIdle /\ UwIdle /\ WmIdle
    /\ sumData \in SeqsUpTo(SumVals, MaxSumLen)
    /\ sumThreads \in 1..MaxThreads
    /\ sumParts = <<SumPart(0, Len(sumData), "queued", 0, sumThreads)>>
    /\ sumLeaves = 0
    /\ sumPc = "running"
    /\ sumResult = 0

\* A queued piece of two or more elements is split at its midpoint.  The
\* splitter allows it while the piece still has splits left, or when the piece
\* was stolen by another worker (which needs a second worker).
SumSplit(i, stolen) ==
    LET p == sumParts[i]
        mid == p.lo + (p.hi - p.lo) \div 2
        left == IF stolen THEN Max(sumThreads, p.splits \div 2)
                ELSE p.splits \div 2
    IN  /\ sumPc = "running"
        /\ p.st = "queued"
        /\ (p.hi - p.lo) \div 2 >= 1
        /\ IF stolen THEN sumThreads > 1 ELSE p.splits > 0
        /\ sumParts' = SubSeq(sumParts, 1, i - 1)
                       \o <<SumPart(p.lo, mid, "queued", 0, left),
                            SumPart(mid, p.hi, "queued", 0, left)>>
                       \o SubSeq(sumParts, i + 1, Len(sumParts))
        /\ UNCHANGED <<sumData, sumThreads, sumLeaves, sumPc, sumResult, besidesSum>>

\* A queued piece the splitter does not split is folded by the worker that
\* holds it.
SumFold(i) ==
    LET p == sumParts[i]
    IN  /\ sumPc = "running"
        /\ p.st = "queued"
        /\ (p.hi - p.lo) \div 2 < 1 \/ p.splits = 0
        /\ sumParts' = [sumParts EXCEPT
                          ![i] = SumPart(p.lo, p.hi, "done",
                                         SumFoldRange(sumData, p.lo, p.hi), 0)]
        /\ sumLeaves' = sumLeaves + 1
        /\ UNCHANGED <<sumData, sumThreads, sumPc, sumResult, besidesSum>>

\* Two neighbouring folded pieces are reduced into one.
SumReduce(i) ==
    LET p == sumParts[i]
        q == sumParts[i + 1]
    IN  /\ sumPc = "running"
        /\ p.st = "done" /\ q.st = "done"
        /\ sumParts' = SubSeq(sumParts, 1, i - 1)
                       \o <<SumPart(p.lo, q.hi, "done", SumCombine(p.val, q.val), 0)>>
                       \o SubSeq(sumParts, i + 2, Len(sumParts))
        /\ UNCHANGED <<sumData, sumThreads, sumLeaves, sumPc, sumResult, besidesSum>>

\* The call returns once a single folded piece is left.
SumReturn ==
    /\ sumPc = "running"
    /\ Len(sumParts) = 1
    /\ sumParts[1].st = "done"
    /\ sumPc' = "returned"
    /\ sumResult' = sumParts[1].val
    /\ UNCHANGED <<sumData, sumThreads, sumParts, sumLeaves, besidesSum>>

SumNext ==
    \/ \E i \in 1..Len(sumParts), stolen \in BOOLEAN : SumSplit(i, stolen)
    \/ \E i \in 1..Len(sumParts) : SumFold(i)
    \/ \E i \in 1..(Len(sumParts) - 1) : SumReduce(i)
    \/ SumReturn

SpecSum == SumInit /\ [][SumNext]_vars

\* C1: the parallel sum returns the sequential left-fold sum of the same
\* data (both modulo 2^32), for every pool size and every way the input is
\* split into pieces and the partial sums are reduced.
C1_ParallelSumEqualsSequential ==
    sumPc = "returned" => sumResult = SeqSum(sumData)

\* C1 witness: a sum that overflowed i32 was returned from three or more
\* partial sums.
C1_Witness ==
    /\ sumPc = "returned"
    /\ sumLeaves >= 3
    /\ Len(sumData) >= 3
    /\ sumData[1] = MaxI32
    /\ sumData[2] = 1

(***************************************************************************)
(* parallel_quicksort: fork-join over rayon::join on a work-stealing pool. *)
(***************************************************************************)
Swap(s, i, j) == [s EXCEPT ![i] = s[j], ![j] = s[i]]

\* The scan of partition: i and store are 0-based, the pivot is at the end.
\* The scan with < for <=: an element equal to the pivot stays on the right
\* (a plausible slip for PartitionScan).
RECURSIVE PartitionScanStrict(_, _, _)
PartitionScanStrict(s, i, store) ==
    IF i >= Len(s) - 1 THEN <<s, store>>
    ELSE IF s[i + 1] < s[Len(s)]
         THEN PartitionScanStrict(Swap(s, i + 1, store + 1), i + 1, store + 1)
         ELSE PartitionScanStrict(s, i + 1, store)

RECURSIVE PartitionScan(_, _, _)
PartitionScan(s, i, store) ==
    IF i >= Len(s) - 1 THEN <<s, store>>
    ELSE IF s[i + 1] <= s[Len(s)]
         THEN PartitionScan(Swap(s, i + 1, store + 1), i + 1, store + 1)
         ELSE PartitionScan(s, i + 1, store)

\* partition with the final swap left out: the pivot stays at the end.
PartitionNoFinalSwap(s) ==
    PartitionScan(Swap(s, Len(s) \div 2 + 1, Len(s)), 0, 0)

\* partition(data) for a slice of one or more elements: <<the slice after,
\* the index returned>>.  The middle element is the pivot.
Partition(s) ==
    LET scanned == PartitionScan(Swap(s, Len(s) \div 2 + 1, Len(s)), 0, 0)
        store == scanned[2]
    IN  <<Swap(scanned[1], store + 1, Len(s)), store>>

\* slice::sort_unstable on integers: the elements in non-decreasing order.
RECURSIVE InsertSorted(_, _)
InsertSorted(s, x) ==
    IF s = <<>> THEN <<x>>
    ELSE IF x >= s[Len(s)] THEN Append(s, x)
    ELSE Append(InsertSorted(SubSeq(s, 1, Len(s) - 1), x), s[Len(s)])

RECURSIVE SortUnstable(_)
SortUnstable(s) ==
    IF s = <<>> THEN <<>>
    ELSE InsertSorted(SortUnstable(SubSeq(s, 1, Len(s) - 1)), s[Len(s)])

\* The sub-slice [lo, hi) of s, and s with that sub-slice replaced.
Slice(s, lo, hi) == SubSeq(s, lo + 1, hi)
WithSlice(s, lo, hi, t) == SubSeq(s, 1, lo) \o t \o SubSeq(s, hi + 1, Len(s))

\* The right sub-slice with the pivot slot left in it (a plausible slip for
\* QsRight: right instead of right[1..]).
QsRightWithPivot(lo, hi, p) == <<lo + p, hi>>

\* The two sub-slices of data[lo, hi) that parallel_quicksort recurses on,
\* p being the index partition returned: data.split_at_mut(p) and right[1..].
QsLeft(lo, hi, p) == <<lo, lo + p>>
QsRight(lo, hi, p) == <<lo + p + 1, hi>>

QsTask(st, by, runs, left, right) ==
    [st |-> st, by |-> by, runs |-> runs, left |-> left, right |-> right]

NoTask == <<>>
Top(stack) == stack[Len(stack)]
Pop(stack) == SubSeq(stack, 1, Len(stack) - 1)
\* The test with < for <=: a slice of exactly the threshold forks (a
\* plausible slip for QsIsLeaf).
QsIsLeafStrict(t) == t[2] - t[1] < SEQUENTIAL_THRESHOLD

\* data.len() <= SEQUENTIAL_THRESHOLD
QsIsLeaf(t) == t[2] - t[1] <= SEQUENTIAL_THRESHOLD

QsInit ==
    /\ SumIdle /\ FsIdle /\ MIdle /\ ImgIdle /\ BIdle /\ MaxIdle /\ PIdle /\ PtIdle /\ UwIdle /\ WmIdle
    /\ qsInit \in SeqsUpTo(1..MaxSortVal, MaxSortLen)
    /\ qsData = qsInit
    /\ qsThreads \in 1..MaxThreads
    /\ qsTasks = (<<0, Len(qsInit)>> :> QsTask("queued", 0, 0, NoTask, NoTask))
    /\ qsInjector = <<<<0, Len(qsInit)>>>>
    /\ qsDeque = [w \in 1..qsThreads |-> <<>>]
    /\ qsStack = [w \in 1..qsThreads |-> <<>>]
    /\ qsPc = "running"

\* Worker w has nothing to run: it is idle, or the call it executes waits in
\* rayon::join for a right-hand call that another worker took.
QsWaiting(w) ==
    IF qsStack[w] = <<>> THEN TRUE
    ELSE LET t == qsTasks[Top(qsStack[w])]
         IN  /\ t.st = "forked"
             /\ qsTasks[t.left].st = "done"
             /\ qsTasks[t.right].st # "done"

QsRun(w, t) ==
    /\ qsTasks' = [qsTasks EXCEPT ![t].st = "running", ![t].by = w]
    /\ qsStack' = [qsStack EXCEPT ![w] = Append(@, t)]

\* An idle worker takes the top-level call from the injector.
QsTake(w) ==
    /\ qsPc = "running"
    /\ qsStack[w] = <<>>
    /\ qsInjector # <<>>
    /\ QsRun(w, Head(qsInjector))
    /\ qsInjector' = Tail(qsInjector)
    /\ UNCHANGED <<qsInit, qsData, qsThreads, qsDeque, qsPc, besidesSort>>

\* A call on a slice no longer than the threshold sorts it sequentially.
QsLeaf(w) ==
    /\ qsPc = "running"
    /\ qsStack[w] # <<>>
    /\ LET t == Top(qsStack[w])
       IN  /\ qsTasks[t].st = "running"
           /\ QsIsLeaf(t)
           /\ qsData' = WithSlice(qsData, t[1], t[2],
                                  SortUnstable(Slice(qsData, t[1], t[2])))
           /\ qsTasks' = [qsTasks EXCEPT ![t].st = "done", ![t].runs = @ + 1]
           /\ qsStack' = [qsStack EXCEPT ![w] = Pop(@)]
    /\ UNCHANGED <<qsInit, qsThreads, qsInjector, qsDeque, qsPc, besidesSort>>

\* A call on a longer slice partitions it and forks: the right-hand call is
\* pushed on the worker's queue, the left-hand call runs on the worker.
QsFork(w) ==
    /\ qsPc = "running"
    /\ qsStack[w] # <<>>
    /\ LET t == Top(qsStack[w])
           parted == Partition(Slice(qsData, t[1], t[2]))
           left == QsLeft(t[1], t[2], parted[2])
           right == QsRight(t[1], t[2], parted[2])
       IN  /\ qsTasks[t].st = "running"
           /\ ~QsIsLeaf(t)
           /\ qsData' = WithSlice(qsData, t[1], t[2], parted[1])
           /\ qsTasks' = (left :> QsTask("running", w, 0, NoTask, NoTask))
                         @@ (right :> QsTask("queued", 0, 0, NoTask, NoTask))
                         @@ [qsTasks EXCEPT ![t] = QsTask("forked", w, @.runs + 1,
                                                          left, right)]
           /\ qsDeque' = [qsDeque EXCEPT ![w] = Append(@, right)]
           /\ qsStack' = [qsStack EXCEPT ![w] = Append(@, left)]
    /\ UNCHANGED <<qsInit, qsThreads, qsInjector, qsPc, besidesSort>>

\* A worker whose left-hand call is done takes the newest call of its own
\* queue (the right-hand call, unless that was stolen) and runs it.
QsPopLocal(w) ==
    /\ qsPc = "running"
    /\ qsStack[w] # <<>>
    /\ QsWaiting(w)
    /\ qsDeque[w] # <<>>
    /\ QsRun(w, Top(qsDeque[w]))
    /\ qsDeque' = [qsDeque EXCEPT ![w] = Pop(@)]
    /\ UNCHANGED <<qsInit, qsData, qsThreads, qsInjector, qsPc, besidesSort>>

\* The victim's queue after a steal that leaves the stolen call in it (a
\* plausible slip for StolenFrom: the call is copied, not moved).
StolenKept(queue) == queue

\* The victim's queue after a steal: the oldest call is gone from it.
StolenFrom(queue) == Tail(queue)

\* A worker with nothing to run steals the oldest call of another worker's
\* queue: the call moves from the victim to the thief.
QsSteal(w, v) ==
    /\ qsPc = "running"
    /\ w # v
    /\ QsWaiting(w)
    /\ qsDeque[w] = <<>>
    /\ qsDeque[v] # <<>>
    /\ QsRun(w, Head(qsDeque[v]))
    /\ qsDeque' = [qsDeque EXCEPT ![v] = StolenFrom(@)]
    /\ UNCHANGED <<qsInit, qsData, qsThreads, qsInjector, qsPc, besidesSort>>

\* A join that returns as soon as the left-hand call is done (a plausible
\* slip for QsJoin: the right-hand call is not waited for).
QsJoinEarly(w) ==
    /\ qsPc = "running"
    /\ qsStack[w] # <<>>
    /\ LET t == Top(qsStack[w])
       IN  /\ qsTasks[t].st = "forked"
           /\ qsTasks[qsTasks[t].left].st = "done"
           /\ qsTasks' = [qsTasks EXCEPT ![t].st = "done"]
           /\ qsStack' = [qsStack EXCEPT ![w] = Pop(@)]
    /\ UNCHANGED <<qsInit, qsData, qsThreads, qsInjector, qsDeque, qsPc, besidesSort>>

\* rayon::join returns once both calls are done, and so does the call.
QsJoin(w) ==
    /\ qsPc = "running"
    /\ qsStack[w] # <<>>
    /\ LET t == Top(qsStack[w])
       IN  /\ qsTasks[t].st = "forked"
           /\ qsTasks[qsTasks[t].left].st = "done"
           /\ qsTasks[qsTasks[t].right].st = "done"
           /\ qsTasks' = [qsTasks EXCEPT ![t].st = "done"]
           /\ qsStack' = [qsStack EXCEPT ![w] = Pop(@)]
    /\ UNCHANGED <<qsInit, qsData, qsThreads, qsInjector, qsDeque, qsPc, besidesSort>>

\* The caller is unblocked when the top-level call is done.
QsReturn ==
    /\ qsPc = "running"
    /\ qsTasks[<<0, Len(qsInit)>>].st = "done"
    /\ qsPc' = "returned"
    /\ UNCHANGED <<qsInit, qsData, qsThreads, qsTasks, qsInjector, qsDeque,
                   qsStack, besidesSort>>

QsNext ==
    \/ \E w \in 1..qsThreads : QsTake(w)
    \/ \E w \in 1..qsThreads : QsLeaf(w)
    \/ \E w \in 1..qsThreads : QsFork(w)
    \/ \E w \in 1..qsThreads : QsPopLocal(w)
    \/ \E w, v \in 1..qsThreads : QsSteal(w, v)
    \/ \E w \in 1..qsThreads : QsJoin(w)
    \/ QsReturn

SpecSort == QsInit /\ [][QsNext]_vars

IsNonDecreasing(s) == \A i \in 1..(Len(s) - 1) : s[i] <= s[i + 1]
Count(s, x) == Cardinality({i \in 1..Len(s) : s[i] = x})
IsPermutation(s, t) ==
    /\ Len(s) = Len(t)
    /\ \A i \in 1..Len(t) : Count(s, t[i]) = Count(t, t[i])

\* C2: when parallel_quicksort returns, the slice is a non-decreasing
\* permutation of what was passed in, whatever the input and the interleaving
\* of the forked calls; a slice no longer than the threshold is the
\* sequential sort of the input.
C2_SortedPermutation ==
    qsPc = "returned" =>
        /\ IsNonDecreasing(qsData)
        /\ IsPermutation(qsData, qsInit)
        /\ Len(qsInit) <= SEQUENTIAL_THRESHOLD => qsData = SortUnstable(qsInit)

\* C2 witness: a reverse-sorted slice longer than the threshold was sorted by
\* calls that ran on two workers.
C2_Witness ==
    /\ qsPc = "returned"
    /\ Len(qsInit) > SEQUENTIAL_THRESHOLD + 1
    /\ \A i \in 1..(Len(qsInit) - 1) : qsInit[i] >= qsInit[i + 1]
    /\ qsInit[1] = MaxSortVal /\ qsInit[Len(qsInit)] = 1
    /\ \E t, u \in DOMAIN qsTasks : qsTasks[t].by # qsTasks[u].by

\* How many times the call t is held: in the injector, in a worker's queue or
\* on a worker's stack.
QsHeld(t) ==
    LET Occurs(q) == Cardinality({i \in 1..Len(q) : q[i] = t})
        RECURSIVE Total(_)
        Total(w) == IF w = 0 THEN 0
                    ELSE Occurs(qsDeque[w]) + Occurs(qsStack[w]) + Total(w - 1)
    IN  Occurs(qsInjector) + Total(qsThreads)

\* C3: on a pool of any size and under every steal pattern, no call of the
\* fork-join tree is held twice (by two workers, or by a worker and a queue),
\* none runs twice, and when the top-level call returns every call has run
\* exactly once and the slice is the same: the sorted input.
C3_WorkStealing ==
    /\ \A t \in DOMAIN qsTasks :
          /\ QsHeld(t) <= 1
          /\ qsTasks[t].runs <= 1
          /\ qsTasks[t].st \in {"queued", "running"} => qsTasks[t].runs = 0
    /\ qsPc = "returned" =>
          /\ \A t \in DOMAIN qsTasks : qsTasks[t].runs = 1 /\ QsHeld(t) = 0
          /\ qsData = SortUnstable(qsInit)

\* C3 witness: a tree two forks deep returned after a right-hand call was
\* stolen: it ran on another worker than the call that forked it.
C3_Witness ==
    /\ qsPc = "returned"
    /\ \E t \in DOMAIN qsTasks :
          /\ qsTasks[t].left # NoTask
          /\ qsTasks[qsTasks[t].right].by # qsTasks[t].by
    /\ \E t \in DOMAIN qsTasks :
          /\ qsTasks[t].left # NoTask
          /\ \/ qsTasks[qsTasks[t].left].left # NoTask
             \/ qsTasks[qsTasks[t].right].left # NoTask

\* C18 as stated: a call forks only if both sub-ranges of the pivot are
\* longer than the threshold, and sorts sequentially without forking else.
C18_ForksOnceBothSidesExceed ==
    \A t \in DOMAIN qsTasks :
        qsTasks[t].left # NoTask =>
            /\ qsTasks[t].left[2] - qsTasks[t].left[1] > SEQUENTIAL_THRESHOLD
            /\ qsTasks[t].right[2] - qsTasks[t].right[1] > SEQUENTIAL_THRESHOLD

\* C18 as the code has it: a call forks exactly when its own range is longer
\* than the threshold, whatever the lengths of the two sub-ranges (either may
\* be empty); the two calls forked are on the sub-ranges left and right of
\* the pivot slot; a call on a range no longer than the threshold has no
\* children and leaves its range sorted.
C18_ForksWhenRangeExceeds ==
    \A t \in DOMAIN qsTasks :
        LET l == qsTasks[t].left
            r == qsTasks[t].right
        IN  /\ qsTasks[t].st \in {"forked", "done"} =>
                  (l # NoTask <=> t[2] - t[1] > SEQUENTIAL_THRESHOLD)
            /\ l # NoTask =>
                  /\ r # NoTask
                  /\ l[1] = t[1] /\ r[2] = t[2]
                  /\ l[2] \in t[1]..(t[2] - 1)
                  /\ r[1] = l[2] + 1
                  /\ {l, r} \subseteq DOMAIN qsTasks
            /\ (l = NoTask /\ qsTasks[t].st = "done") =>
                  /\ r = NoTask
                  /\ IsNonDecreasing(Slice(qsData, t[1], t[2]))

\* C18 witness: a call on a range longer than the threshold has forked two
\* calls on sub-ranges that are both no longer than the threshold, one of
\* them empty, and both were sorted sequentially.
C18_Witness ==
    \E t \in DOMAIN qsTasks :
        /\ qsTasks[t].left # NoTask
        /\ t[2] - t[1] > SEQUENTIAL_THRESHOLD
        /\ qsTasks[t].left[2] - qsTasks[t].left[1] <= SEQUENTIAL_THRESHOLD
        /\ qsTasks[t].right[2] - qsTasks[t].right[1] = 0
        /\ qsTasks[qsTasks[t].left].st = "done"
        /\ qsTasks[qsTasks[t].right].st = "done"

\* The pool keeps running: a worker that can take a step takes one at last.
SpecSortFair == SpecSort /\ WF_vars(QsNext)

\* C19: parallel_quicksort terminates.  The two ranges a call forks are
\* disjoint, leave out the pivot slot between them and are each strictly
\* shorter than the range of the call; a call on a range no longer than the
\* threshold forks nothing and no other call is made inside its range; and
\* every execution reaches the return of the top-level call.
C19_Terminates ==
    /\ [] (\A t \in DOMAIN qsTasks :
              LET l == qsTasks[t].left
                  r == qsTasks[t].right
              IN  /\ l # NoTask =>
                        /\ l[2] - l[1] < t[2] - t[1]
                        /\ r[2] - r[1] < t[2] - t[1]
                        /\ (l[2] - l[1]) + (r[2] - r[1]) = (t[2] - t[1]) - 1
                        /\ t[1] = l[1] /\ l[1] <= l[2] /\ l[2] < r[1]
                        /\ r[1] <= r[2] /\ r[2] = t[2]
                  /\ t[2] - t[1] <= SEQUENTIAL_THRESHOLD =>
                        /\ l = NoTask /\ r = NoTask
                        /\ \A u \in DOMAIN qsTasks :
                              (u[1] >= t[1] /\ u[2] <= t[2]) => u = t)
    /\ <>(qsPc = "returned")

\* C19 witness: the top-level call has returned from a tree two forks deep
\* whose calls without children are all on ranges within the threshold.
C19_Witness ==
    /\ qsPc = "returned"
    /\ Cardinality(DOMAIN qsTasks) >= 5
    /\ \A t \in DOMAIN qsTasks :
          qsTasks[t].left = NoTask => t[2] - t[1] <= SEQUENTIAL_THRESHOLD
    /\ \A w \in 1..qsThreads : qsStack[w] = <<>> /\ qsDeque[w] = <<>>

\* C20: a call that forked is done only when both calls it forked are done,
\* in every execution: no call is done while one of its children is queued
\* or running (or waits in its own join), and the caller of the top-level
\* call is unblocked only when every call of the tree is done.
C20_JoinWaitsForBoth ==
    /\ \A t \in DOMAIN qsTasks :
          (qsTasks[t].st = "done" /\ qsTasks[t].left # NoTask) =>
              /\ qsTasks[qsTasks[t].left].st = "done"
              /\ qsTasks[qsTasks[t].right].st = "done"
    /\ qsPc = "returned" =>
          \A t \in DOMAIN qsTasks : qsTasks[t].st = "done"

\* C20 witness: the top-level call of the longest slice is done, not yet
\* returned to its caller, after its right-hand call, which forked in turn,
\* ran on another worker.
C20_Witness ==
    LET top == <<0, Len(qsInit)>>
    IN  /\ qsPc = "running"
        /\ Len(qsInit) = MaxSortLen
        /\ qsTasks[top].st = "done"
        /\ qsTasks[top].left # NoTask
        /\ qsTasks[qsTasks[top].right].by # qsTasks[top].by
        /\ qsTasks[qsTasks[top].right].left # NoTask

(***************************************************************************)
(* partition on its own: one call on a slice of one or more elements.      *)
(***************************************************************************)
PartVals == 1..(MaxSortVal + 1)

PtInit ==
    /\ SumIdle /\ QsIdle /\ FsIdle /\ MIdle /\ ImgIdle /\ BIdle /\ MaxIdle /\ PIdle /\ UwIdle /\ WmIdle
    /\ ptInit \in SeqsUpTo(PartVals, MaxSortLen)
    /\ ptInit # <<>>
    /\ ptOut = <<>>

PtCall ==
    /\ ptInit # <<>> /\ ptOut = <<>>
    /\ ptOut' = Partition(ptInit)
    /\ UNCHANGED <<ptInit, besidesPartition>>

SpecPartition == PtInit /\ [][PtCall]_vars

\* C17: partition(data) on len >= 1 elements returns an index p in 0..len-1
\* such that afterwards data[p] is the element that was at index len/2,
\* every element before p is <= it, every element after p is > it, and the
\* slice holds the elements it held before (each value as many times).
C17_Partition ==
    ptOut # <<>> =>
        LET d == ptOut[1]
            p == ptOut[2]
            pivot == ptInit[Len(ptInit) \div 2 + 1]
        IN  /\ Len(d) = Len(ptInit)
            /\ p \in 0..(Len(d) - 1)
            /\ d[p + 1] = pivot
            /\ \A k \in 1..p : d[k] <= pivot
            /\ \A k \in (p + 2)..Len(d) : d[k] > pivot
            /\ \A v \in PartVals : Count(d, v) = Count(ptInit, v)

\* C17 witness: partition has run on a slice that holds its pivot value
\* twice, a smaller and a larger element, and was not partitioned before.
C17_Witness ==
    /\ ptOut # <<>>
    /\ ptOut[1] # ptInit
    /\ LET pivot == ptInit[Len(ptInit) \div 2 + 1]
       IN  /\ Cardinality({k \in 1..Len(ptInit) : ptInit[k] = pivot}) >= 2
           /\ \E k \in 1..Len(ptInit) : ptInit[k] < pivot
           /\ \E k \in 1..Len(ptInit) : ptInit[k] > pivot
           /\ ptOut[2] \in 1..(Len(ptInit) - 2)

(***************************************************************************)
(* avoid_false_sharing: per-thread padded counters written by the chunks   *)
(* of data.par_chunks(chunk_size).enumerate().                             *)
(***************************************************************************)
\* std::cmp::max(1, data.len() / num_threads)
FsChunkSize(len, n) == Max(1, len \div n)

\* The number of chunks with an empty slice counted as one chunk (a
\* plausible slip for NumChunks).
NumChunksAtLeastOne(len, c) == Max(1, (len + c - 1) \div c)

\* The number of chunks par_chunks(c) makes of a slice of len elements.
NumChunks(len, c) == (len + c - 1) \div c

\* The range of a chunk that stops one short of the end of the slice (a
\* plausible slip for ChunkRange).
ChunkRangeShort(len, c, i) == <<i * c, Min((i + 1) * c, len - 1)>>

\* The half-open range <<lo, hi>> of chunk i of par_chunks(c) over a slice of
\* len elements: [i*c, min((i+1)*c, len)).
ChunkRange(len, c, i) == <<i * c, Min((i + 1) * c, len)>>

\* Chunk i of par_chunks(c): the elements of its range.
Chunk(s, c, i) ==
    LET r == ChunkRange(Len(s), c, i) IN SubSeq(s, r[1] + 1, r[2])

\* chunk.iter().map(|&x| x as u64).sum() for a chunk of non-negative values.
RECURSIVE LocalSum(_)
LocalSum(chunk) ==
    IF chunk = <<>> THEN 0 ELSE chunk[1] + LocalSum(Tail(chunk))

\* The counter a chunk stores into: counters[thread_id % num_threads], where
\* thread_id is the chunk's index (0-based; the counters are 1-based here).
FsSlot(i, n) == (i % n) + 1

FsInit ==
    /\ SumIdle /\ QsIdle /\ MIdle /\ ImgIdle /\ BIdle /\ MaxIdle /\ PIdle /\ PtIdle /\ UwIdle /\ WmIdle
    /\ fsData \in SeqsUpTo(0..MaxFsVal, MaxFsLen)
    /\ fsThreads \in 1..MaxThreads
    /\ fsCounters = [k \in 1..fsThreads |-> 0]
    /\ fsPending = 0..(NumChunks(Len(fsData), FsChunkSize(Len(fsData), fsThreads)) - 1)
    /\ fsWrites = [k \in 1..fsThreads |-> {}]
    /\ fsPc = "parallel"
    /\ fsResult = 0

\* The closure of for_each on chunk i: the chunk's sum is stored (not added)
\* into the chunk's counter.
FsChunkTask(i) ==
    LET slot == FsSlot(i, fsThreads)
        c == FsChunkSize(Len(fsData), fsThreads)
    IN  /\ fsPc = "parallel"
        /\ i \in fsPending
        /\ fsCounters' = [fsCounters EXCEPT ![slot] = LocalSum(Chunk(fsData, c, i))]
        /\ fsWrites' = [fsWrites EXCEPT ![slot] = @ \cup {i}]
        /\ fsPending' = fsPending \ {i}
        /\ UNCHANGED <<fsData, fsThreads, fsPc, fsResult, besidesFs>>

\* A combine that does not wait for for_each to return (a plausible slip
\* for FsCombine: the counters are loaded while chunks are still to run).
FsCombineEarly ==
    /\ fsPc = "parallel"
    /\ fsResult' = LocalSum(fsCounters)
    /\ fsPc' = "returned"
    /\ UNCHANGED <<fsData, fsThreads, fsCounters, fsPending, fsWrites, besidesFs>>

\* for_each has returned: the counters are loaded and summed.
FsCombine ==
    /\ fsPc = "parallel"
    /\ fsPending = {}
    /\ fsResult' = LocalSum(fsCounters)
    /\ fsPc' = "returned"
    /\ UNCHANGED <<fsData, fsThreads, fsCounters, fsPending, fsWrites, besidesFs>>

FsNext ==
    \/ \E i \in fsPending : FsChunkTask(i)
    \/ FsCombine

SpecFs == FsInit /\ [][FsNext]_vars

\* C4: during the parallel phase no two chunks store into the same counter
\* (chunk index -> counters[index % num_threads] is injective over the chunks
\* of par_chunks(max(1, len / num_threads))).
C4_SlotWritesExclusive ==
    \A k \in 1..fsThreads : Cardinality(fsWrites[k]) <= 1

\* C21: the counters are loaded and summed only after every chunk closure
\* has stored: the step that loads is taken with no chunk left to run and
\* with every chunk's store made, what it sums are the counters as the
\* stores left them, and no counter is stored to at or after that step.
C21_CombineAfterStores ==
    /\ [] (fsPc = "returned" =>
              /\ fsPending = {}
              /\ UNION {fsWrites[k] : k \in 1..fsThreads} =
                    0..(NumChunks(Len(fsData), FsChunkSize(Len(fsData), fsThreads)) - 1)
              /\ fsResult = LocalSum(fsCounters))
    /\ [][(fsPc' = "returned") => (fsPending = {} /\ fsCounters' = fsCounters)]_vars

\* C21 witness: the call has returned after two chunk closures stored
\* non-zero sums into two counters.
C21_Witness ==
    /\ fsPc = "returned"
    /\ fsThreads = 2
    /\ \A k \in 1..fsThreads : Cardinality(fsWrites[k]) = 1 /\ fsCounters[k] > 0

\* C22: for every slice of non-negative values and every number of threads,
\* avoid_false_sharing returns the sum of all elements, under every
\* interleaving of the chunk closures.
C22_ReturnsSum ==
    fsPc = "returned" => fsResult = LocalSum(fsData)

\* Where the chunks are no more than the counters, the sum is returned.
ReturnsSumForFewChunks ==
    (/\ fsPc = "returned"
     /\ NumChunks(Len(fsData), FsChunkSize(Len(fsData), fsThreads)) <= fsThreads)
        => fsResult = LocalSum(fsData)

(***************************************************************************)
(* Matrix multiply and transpose over par_chunks_mut.  Matrices are        *)
(* row-major buffers; their f64 cells are small integers here, on which    *)
(* f64 arithmetic is exact.                                                *)
(***************************************************************************)
\* A buffer of len cells, filled by value pattern seed.
MatGen(len, seed) == [k \in 1..len |-> ((k - 1) * seed + 1) % 5]

\* The buffer lengths tried for a declared shape: right, and off by one.
LensFor(rows, cols) == {n \in {rows * cols - 1, rows * cols, rows * cols + 1} : n >= 0}

\* s[k] for a 0-based index k; 0 where a Rust index would be out of bounds
\* (the closure panics there, see ChunkPanics).
At(s, k) == IF k < Len(s) THEN s[k + 1] ELSE 0

\* vec![0.0; n]
Zeros(n) == [k \in 1..n |-> 0]

\* The multiplication's checks, in order, with the length check left out.
MulCheckDimsOnly(a, aRows, aCols, b, bRows, bCols) ==
    IF aCols # bRows THEN "err_dims" ELSE "ok"

\* The checks of parallel_matrix_multiply / multiply_matrices, in order.
MulCheck(a, aRows, aCols, b, bRows, bCols) ==
    IF aCols # bRows THEN "err_dims"
    ELSE IF Len(a) # aRows * aCols \/ Len(b) # bRows * bCols THEN "err_len"
    ELSE "ok"

\* The check of transpose_matrix; parallel_matrix_transpose makes none.
TransposeCheck(impl, matrix, rows, cols) ==
    IF impl = "proc" /\ Len(matrix) # rows * cols THEN "err_len" ELSE "ok"

\* sum += a[i * a_cols + k] * b[k * b_cols + j] for k in 0..a_cols
RECURSIVE Dot(_, _, _)
Dot(i, j, k) ==
    IF k = 0 THEN 0
    ELSE Dot(i, j, k - 1)
         + At(mA, i * mACols + (k - 1)) * At(mB, (k - 1) * mBCols + j)

\* The chunk size of the output: par_chunks_mut(b_cols), par_chunks_mut(rows).
MChunkSize == IF mOp = "multiply" THEN mBCols ELSE mARows

\* A chunk that runs to the end of the output instead of stopping after
\* chunk_size cells (a plausible slip for MChunkLen).
MChunkLenToEnd(i) == Len(mResult) - i * MChunkSize

\* The length of chunk i of the output.
MChunkLen(i) == Min(MChunkSize, Len(mResult) - i * MChunkSize)

\* What the closure writes at position x of its chunk i.
MCell(i, x) ==
    IF mOp = "multiply" THEN Dot(i, x, mACols)
    ELSE At(mA, x * mACols + i)

\* Whether the closure on chunk i indexes a slice out of bounds.
ChunkPanics(i) ==
    IF mOp = "multiply"
    THEN \E j \in 0..(mBCols - 1) :
            \/ j >= MChunkLen(i)
            \/ \E k \in 0..(mACols - 1) :
                  i * mACols + k >= Len(mA) \/ k * mBCols + j >= Len(mB)
    ELSE \E x \in 0..(mARows - 1) :
            x >= MChunkLen(i) \/ x * mACols + i >= Len(mA)

\* The naive sequential triple loop (the fallback of multiply_matrices).
NaiveMultiply(a, aRows, aCols, b, bCols) ==
    [x \in 1..(aRows * bCols) |->
        LET i == (x - 1) \div bCols
            j == (x - 1) % bCols
            RECURSIVE Sum(_)
            Sum(k) == IF k = 0 THEN 0
                      ELSE Sum(k - 1) + a[i * aCols + k] * b[(k - 1) * bCols + j + 1]
        IN  Sum(aCols)]

MInit ==
    /\ SumIdle /\ QsIdle /\ FsIdle /\ ImgIdle /\ BIdle /\ MaxIdle /\ PIdle /\ PtIdle /\ UwIdle /\ WmIdle
    /\ mOp \in {"multiply", "transpose"}
    /\ mImpl \in {"fn", "proc"}
    /\ mARows \in 0..MaxDim /\ mACols \in 0..MaxDim
    /\ \E n \in LensFor(mARows, mACols), seed \in 1..MaxSeed : mA = MatGen(n, seed)
    /\ IF mOp = "multiply"
       THEN /\ mBRows \in 0..MaxDim /\ mBCols \in 0..MaxDim
            /\ \E n \in LensFor(mBRows, mBCols), seed \in 1..MaxSeed :
                  mB = MatGen(n, seed)
       ELSE mBRows = 0 /\ mBCols = 0 /\ mB = <<>>
    /\ mOrig = mA
    /\ mCalls = 0
    /\ mAlloc = FALSE /\ mResult = <<>> /\ mWrites = <<>>
    /\ mPending = {} /\ mRan = {}
    /\ mPc = "call" /\ mOutcome = "none"

\* The call up to the start of the parallel loop: the checks, then the
\* allocation of the output, then par_chunks_mut, which panics on a chunk
\* size of 0.
MCall ==
    LET check == IF mOp = "multiply"
                 THEN MulCheck(mA, mARows, mACols, mB, mBRows, mBCols)
                 ELSE TransposeCheck(mImpl, mA, mARows, mACols)
        size == IF mOp = "multiply" THEN mARows * mBCols ELSE mARows * mACols
    IN  /\ mPc = "call"
        /\ mCalls' = mCalls + 1
        /\ IF check # "ok"
           THEN /\ mPc' = "returned" /\ mOutcome' = check
                /\ UNCHANGED <<mAlloc, mResult, mWrites, mPending>>
           ELSE /\ mAlloc' = TRUE
                /\ mResult' = Zeros(size)
                /\ mWrites' = Zeros(size)
                /\ mOutcome' = "none"
                /\ IF MChunkSize = 0
                   THEN mPc' = "panicked" /\ mPending' = {}
                   ELSE /\ mPc' = "tasks"
                        /\ mPending' = 0..(NumChunks(size, MChunkSize) - 1)
        /\ UNCHANGED <<mOp, mImpl, mA, mARows, mACols, mB, mBRows, mBCols, mOrig,
                       mRan, besidesMatrix>>

\* The closure of for_each on chunk i of the output: row i of the product, or
\* column i of the matrix.
MChunkTask(i) ==
    LET base == i * MChunkSize
    IN  /\ mPc = "tasks"
        /\ i \in mPending
        /\ mPending' = mPending \ {i}
        /\ mRan' = mRan \cup {i}
        /\ IF ChunkPanics(i)
           THEN mPc' = "panicked" /\ UNCHANGED <<mResult, mWrites>>
           ELSE /\ mResult' = [x \in 1..Len(mResult) |->
                                 IF x - 1 >= base /\ x - 1 < base + MChunkLen(i)
                                 THEN MCell(i, x - 1 - base) ELSE mResult[x]]
                /\ mWrites' = [x \in 1..Len(mWrites) |->
                                 IF x - 1 >= base /\ x - 1 < base + MChunkLen(i)
                                 THEN mWrites[x] + 1 ELSE mWrites[x]]
                /\ mPc' = mPc
        /\ UNCHANGED <<mOp, mImpl, mA, mARows, mACols, mB, mBRows, mBCols, mOrig,
                       mCalls, mAlloc, mOutcome, besidesMatrix>>

\* for_each has returned: the output is returned (Ok(result), or result).
MReturn ==
    /\ mPc = "tasks"
    /\ mPending = {}
    /\ mPc' = "returned"
    /\ mOutcome' = "ok"
    /\ UNCHANGED <<mOp, mImpl, mA, mARows, mACols, mB, mBRows, mBCols, mOrig,
                   mCalls, mAlloc, mResult, mWrites, mPending, mRan,
                   besidesMatrix>>

\* The transpose is transposed back: transpose(transpose(m, r, c), c, r).
MTransposeBack ==
    /\ mOp = "transpose"
    /\ mPc = "returned" /\ mOutcome = "ok"
    /\ mCalls = 1
    /\ mA' = mResult /\ mARows' = mACols /\ mACols' = mARows
    /\ mAlloc' = FALSE /\ mResult' = <<>> /\ mWrites' = <<>>
    /\ mPending' = {} /\ mRan' = {}
    /\ mPc' = "call" /\ mOutcome' = "none"
    /\ UNCHANGED <<mOp, mImpl, mB, mBRows, mBCols, mOrig, mCalls,
                   besidesMatrix>>

MNext ==
    \/ MCall
    \/ \E i \in mPending : MChunkTask(i)
    \/ MReturn
    \/ MTransposeBack

SpecMatrix == MInit /\ [][MNext]_vars

\* The operands of the multiplication fail one of its checks.
MulMismatch ==
    \/ mACols # mBRows
    \/ Len(mA) # mARows * mACols
    \/ Len(mB) # mBRows * mBCols

\* C5: a multiplication of operands that pass the checks returns Ok(result),
\* result of length a_rows * b_cols and equal, cell for cell, to the naive
\* sequential triple loop, in whatever order the row closures run.
C5_MultiplyCorrect ==
    (mOp = "multiply" /\ ~MulMismatch /\ mPc \notin {"call", "tasks"}) =>
        /\ mPc = "returned" /\ mOutcome = "ok"
        /\ mResult = NaiveMultiply(mA, mARows, mACols, mB, mBCols)

\* The multiplications of C5 whose chunk size is not 0 do satisfy it.
MultiplyCorrectForColumns ==
    mBCols > 0 => C5_MultiplyCorrect

\* C6: a multiplication whose operands fail a check returns an error, with no
\* output buffer allocated or written and no closure run.
C6_MismatchFailsFast ==
    (mOp = "multiply" /\ MulMismatch /\ mPc # "call") =>
        /\ mPc = "returned"
        /\ mOutcome \in {"err_dims", "err_len"}
        /\ ~mAlloc /\ mResult = <<>> /\ mWrites = <<>>
        /\ mPending = {} /\ mRan = {}

\* C6 witness: the shapes agree and only the length of b is wrong; the call
\* has returned the length error.
C6_Witness ==
    /\ mOp = "multiply" /\ mPc = "returned" /\ mOutcome = "err_len"
    /\ mACols = mBRows /\ mACols > 0
    /\ Len(mA) = mARows * mACols /\ Len(mB) # mBRows * mBCols

\* C7: for a matrix of r rows and c columns (len = r * c) the transpose has
\* transpose[j*r + i] = m[i*c + j], and transposing it back gives m.
C7_TransposeRoundTrip ==
    (mOp = "transpose" /\ Len(mOrig) = mARows * mACols /\ mPc \notin {"call", "tasks"}) =>
        /\ mPc = "returned" /\ mOutcome = "ok"
        /\ mCalls = 1 =>
              /\ Len(mResult) = Len(mOrig)
              /\ \A i \in 0..(mARows - 1), j \in 0..(mACols - 1) :
                    mResult[j * mARows + i + 1] = mOrig[i * mACols + j + 1]
        /\ mCalls = 2 => mResult = mOrig

\* The matrices of C7 with at least one row and one column do satisfy it.
TransposeRoundTripForCells ==
    (mARows > 0 /\ mACols > 0) => C7_TransposeRoundTrip

\* C16: the chunks of the output are pairwise disjoint and cover it (every
\* cell lies in exactly one chunk); a cell is written at most once, and only
\* by the closure that ran on its chunk; when the operation returns every
\* cell has been written exactly once; and no step of the operation changes
\* an input matrix.
C16_DisjointWrites ==
    /\ [] (LET n == NumChunks(Len(mResult), MChunkSize)
               InChunk(x, i) == /\ x >= i * MChunkSize
                                /\ x < i * MChunkSize + MChunkLen(i)
               Owners(x) == {i \in 0..(n - 1) : InChunk(x, i)}
           IN  /\ (mAlloc /\ mPc \in {"tasks", "returned"}) =>
                     /\ \A i \in 0..(n - 1) : MChunkLen(i) >= 1
                     /\ \A x \in 0..(Len(mResult) - 1) :
                           /\ Cardinality(Owners(x)) = 1
                           /\ mWrites[x + 1] =
                                 (IF Owners(x) \subseteq mRan THEN 1 ELSE 0)
                     /\ mPc = "returned" =>
                           \A x \in 1..Len(mWrites) : mWrites[x] = 1
               /\ mPc = "panicked" =>
                     \A x \in 1..Len(mWrites) : mWrites[x] <= 1)
    /\ [][(mPc \in {"call", "tasks"}) => (mA' = mA /\ mB' = mB)]_vars

\* C16 witness: a product of four cells has returned, each of its two rows
\* written by a closure of its own.
C16_Witness ==
    /\ mOp = "multiply" /\ mPc = "returned" /\ mOutcome = "ok"
    /\ Len(mResult) = 4 /\ mRan = {0, 1}
    /\ mACols >= 1

\* C23: no call whose arguments pass the checks panics or indexes out of
\* bounds, zero dimensions included.
C23_ReturnsNormally ==
    mPc # "panicked"

\* The calls that panic are those with a chunk size of 0 (b_cols = 0 for the
\* product, rows = 0 for the transpose) and the transposes by the function,
\* which checks nothing, of a buffer whose length is not rows * cols.
PanicsOnlyOnZeroChunkOrUncheckedLength ==
    mPc = "panicked" =>
        \/ MChunkSize = 0
        \/ mOp = "transpose" /\ mImpl = "fn" /\ Len(mA) # mARows * mACols

(***************************************************************************)
(* f32 arithmetic, as far as the pixel operations use it: the product of   *)
(* an f32 and a byte, the sum of two non-negative f32 and the cast to u8.  *)
(* A finite non-negative f32 is <<m, e>>, the value m * 2^e with           *)
(* 0 <= m < 2^24; every operation rounds to nearest, ties to even, as      *)
(* IEEE 754 does.  No intermediate value leaves TLC's 32-bit range.        *)
(***************************************************************************)
RECURSIVE Pow2(_)
Pow2(n) == IF n = 0 THEN 1 ELSE 2 * Pow2(n - 1)

\* The number of bits of n.
RECURSIVE BitLen(_)
BitLen(n) == IF n = 0 THEN 0 ELSE 1 + BitLen(n \div 2)

\* n / 2^k rounded to the nearest integer, ties to even; sticky says that the
\* exact value is a little more than n.
RoundShift(n, k, sticky) ==
    IF k = 0 THEN n
    ELSE LET q == n \div Pow2(k)
             rem == n % Pow2(k)
             half == Pow2(k - 1)
             up == rem > half \/ (rem = half /\ (sticky \/ q % 2 = 1))
         IN  IF up THEN q + 1 ELSE q

\* The f32 nearest to n * 2^e (to a little more, with sticky).
F32Round(n, e, sticky) ==
    LET k == Max(0, BitLen(n) - 24)
        q == RoundShift(n, k, sticky)
    IN  IF q = Pow2(24) THEN <<Pow2(23), e + k + 1>> ELSE <<q, e + k>>

\* x with its mantissa shifted up to 24 bits.
F32Norm(x) ==
    IF x[1] = 0 THEN x
    ELSE LET up == 24 - BitLen(x[1]) IN <<x[1] * Pow2(up), x[2] - up>>

\* x * (v as f32) for a byte v.  A 24-bit mantissa times a byte has up to 32
\* bits, so the product is formed as 2 * n + b.
F32MulByte(x, v) ==
    IF v = 0 \/ x[1] = 0 THEN <<0, 0>>
    ELSE IF x[1] < Pow2(23) THEN F32Round(x[1] * v, x[2], FALSE)
    ELSE IF v = 1 THEN x
    ELSE LET n == (x[1] \div 2) * v + ((x[1] % 2) * v) \div 2
             b == ((x[1] % 2) * v) % 2
             k == BitLen(n) - 24
             q == IF k = 0 THEN (IF b = 1 /\ n % 2 = 1 THEN n + 1 ELSE n)
                  ELSE RoundShift(n, k, b = 1)
         IN  IF q = Pow2(24) THEN <<Pow2(23), x[2] + k + 2>>
             ELSE <<q, x[2] + k + 1>>

\* x + y, both non-negative: the smaller operand is aligned to the larger
\* with three guard bits and a sticky bit.
F32Add(x, y) ==
    IF x[1] = 0 THEN y
    ELSE IF y[1] = 0 THEN x
    ELSE LET nx == F32Norm(x)
             ny == F32Norm(y)
             a == IF nx[2] >= ny[2] THEN nx ELSE ny
             b == IF nx[2] >= ny[2] THEN ny ELSE nx
             d == a[2] - b[2]
             big == a[1] * 8
             small == IF d > 27 THEN 0 ELSE (b[1] * 8) \div Pow2(d)
             sticky == IF d > 27 THEN TRUE ELSE (b[1] * 8) % Pow2(d) # 0
         IN  F32Round(big + small, a[2] - 3, sticky)

\* x as u8 for a finite non-negative x: truncated, saturating at 255.
F32AsU8(x) ==
    IF x[2] >= 0
    THEN (IF x[1] >= 256 \/ x[2] >= 8 THEN Min(255, x[1] * Pow2(Min(x[2], 8)))
          ELSE Min(255, x[1] * Pow2(x[2])))
    ELSE IF -x[2] > 30 THEN 0
    ELSE Min(255, x[1] \div Pow2(-x[2]))

\* The f32 literals 0.299, 0.587 and 0.114: the f32 nearest to each.
Lum299 == <<10032775, -25>>
Lum587 == <<4924113, -23>>
Lum114 == <<15300821, -27>>

\* The luminance with the blue term dropped (a plausible slip for Gray).
GrayNoBlue(r, g, b) ==
    F32AsU8(F32Add(F32MulByte(Lum299, r), F32MulByte(Lum587, g)))

\* (0.299 * r + 0.587 * g + 0.114 * b) as u8
Gray(r, g, b) ==
    F32AsU8(F32Add(F32Add(F32MulByte(Lum299, r), F32MulByte(Lum587, g)),
                   F32MulByte(Lum114, b)))

\* An f32 of either sign, infinite or NaN: k is "fin", "inf" or "nan", s the
\* sign, <<m, e>> the magnitude of a finite value.
F32Fin(s, m, e) == [k |-> "fin", s |-> s, m |-> m, e |-> e]
F32Inf == [k |-> "inf", s |-> 1, m |-> 0, e |-> 0]
F32NaN == [k |-> "nan", s |-> 1, m |-> 0, e |-> 0]

\* (v as f32) * brightness
BrightProduct(v, f) ==
    IF f.k = "nan" THEN F32NaN
    ELSE IF f.k = "inf" THEN (IF v = 0 THEN F32NaN ELSE f)
    ELSE LET x == F32MulByte(<<f.m, f.e>>, v) IN F32Fin(f.s, x[1], x[2])

\* p between 0.0 and 255.0, for a p that is not NaN.
F32Bounded(p) ==
    IF p.s < 0 THEN F32Fin(1, 0, 0)
    ELSE IF p.k = "inf" \/ F32AsU8(<<p.m, p.e>>) = 255 THEN F32Fin(1, 255, 0)
    ELSE p

\* p.clamp(0.0, 255.0): NaN stays NaN.
F32Clamp(p) == IF p.k = "nan" THEN p ELSE F32Bounded(p)

\* p.min(255.0).max(0.0): f32::min of NaN and 255.0 is 255.0.
F32MinMax(p) == IF p.k = "nan" THEN F32Fin(1, 255, 0) ELSE F32Bounded(p)

\* p as u8: NaN becomes 0.
F32CastU8(p) ==
    IF p.k = "nan" \/ p.s < 0 THEN 0
    ELSE IF p.k = "inf" THEN 255
    ELSE F32AsU8(<<p.m, p.e>>)

\* The adjusted channel value: parallel_brightness_adjustment clamps,
\* adjust_brightness takes min and max.
BrightByte(impl, v, f) ==
    F32CastU8(IF impl = "fn" THEN F32Clamp(BrightProduct(v, f))
              ELSE F32MinMax(BrightProduct(v, f)))

(***************************************************************************)
(* The pixel operations: grayscale and brightness over RGBA buffers, as    *)
(* the free functions (in place) and as the WasmImageProcessor methods     *)
(* (into self.buffer, which is cloned for the caller).                     *)
(***************************************************************************)
\* The pixels of the model: colours about the luminance values that a second
\* conversion moves, a black and a bright one, opaque or transparent.
Colours == {<<37, 37, 37>>, <<38, 37, 37>>, <<0, 0, 0>>, <<10, 20, 30>>,
            <<200, 210, 220>>}
Pixels == {c \o <<a>> : c \in Colours, a \in {0, 255}}

\* The bytes after the last whole pixel of a buffer.
Tails == {<<>>, <<9>>}

\* The buffer of the pixels ps, in order.
Flatten(ps) == [x \in 1..(4 * Len(ps)) |-> ps[((x - 1) \div 4) + 1][((x - 1) % 4) + 1]]

\* The brightness arguments of the model: 2.0, 0.5, -1.0, infinity and NaN.
Factors == {F32Fin(1, 1, 1), F32Fin(1, 1, -1), F32Fin(-1, 1, 0), F32Inf, F32NaN}

\* The number of chunks of par_chunks_exact(4): the remainder is left out.
PixelCount(buf) == Len(buf) \div 4

\* What the grayscale closure writes for pixel k of src.
GrayPixel(src, k) ==
    LET gray == Gray(src[4 * k + 1], src[4 * k + 2], src[4 * k + 3])
    IN  <<gray, gray, gray, src[4 * k + 4]>>

\* What the brightness closure leaves in pixel k, given src.
BrightPixel(impl, src, k, f) ==
    <<BrightByte(impl, src[4 * k + 1], f), BrightByte(impl, src[4 * k + 2], f),
      BrightByte(impl, src[4 * k + 3], f), src[4 * k + 4]>>

\* buf with pixel k replaced by px.
WithPixel(buf, k, px) ==
    [x \in 1..Len(buf) |-> IF x > 4 * k /\ x <= 4 * k + 4 THEN px[x - 4 * k] ELSE buf[x]]

\* The length check of to_grayscale and adjust_brightness; the free functions
\* make none.
ImgCheck(impl, rgba) ==
    IF impl = "proc" /\ Len(rgba) % 4 # 0 THEN "err_len" ELSE "ok"

ImgInit ==
    /\ SumIdle /\ QsIdle /\ FsIdle /\ MIdle /\ BIdle /\ MaxIdle /\ PIdle /\ PtIdle /\ UwIdle /\ WmIdle
    /\ imgOp \in {"grayscale", "brightness"}
    /\ imgImpl \in {"fn", "proc"}
    /\ imgFactor \in (IF imgOp = "brightness" THEN Factors ELSE {NoFactor})
    /\ \E ps \in SeqsUpTo(Pixels, MaxPixels), tail \in Tails :
          imgData = Flatten(ps) \o tail
    /\ imgOrig = imgData
    /\ imgBuffer = <<>>
    /\ imgPending = {} /\ imgTouched = {}
    /\ imgPc = "call" /\ imgOutcome = "none"
    /\ imgOut = <<>> /\ imgFirst = <<>>
    /\ imgCalls = 0

\* The call up to the start of the parallel loop: the method checks the
\* length, then clears and resizes self.buffer; the function starts at once.
ImgCall ==
    /\ imgPc = "call"
    /\ imgCalls' = imgCalls + 1
    /\ IF ImgCheck(imgImpl, imgData) # "ok"
       THEN /\ imgPc' = "returned" /\ imgOutcome' = "err_len"
            /\ UNCHANGED <<imgBuffer, imgPending>>
       ELSE /\ imgPc' = "tasks" /\ imgOutcome' = "none"
            /\ imgPending' = 0..(PixelCount(imgData) - 1)
            /\ imgBuffer' = IF imgImpl = "proc" THEN [x \in 1..Len(imgData) |-> 0]
                            ELSE imgBuffer
    /\ UNCHANGED <<imgOp, imgImpl, imgFactor, imgOrig, imgData, imgTouched, imgOut,
                   imgFirst, besidesImage>>

\* The closure of for_each on pixel k: in place for the function, from
\* rgba_data into self.buffer for the method.
ImgPixelTask(k) ==
    LET px == IF imgOp = "grayscale" THEN GrayPixel(imgData, k)
              ELSE BrightPixel(imgImpl, imgData, k, imgFactor)
    IN  /\ imgPc = "tasks"
        /\ k \in imgPending
        /\ imgPending' = imgPending \ {k}
        /\ imgTouched' = imgTouched \cup {k}
        /\ IF imgImpl = "fn"
           THEN imgData' = WithPixel(imgData, k, px) /\ UNCHANGED imgBuffer
           ELSE imgBuffer' = WithPixel(imgBuffer, k, px) /\ UNCHANGED imgData
        /\ UNCHANGED <<imgOp, imgImpl, imgFactor, imgOrig, imgPc, imgOutcome, imgOut,
                       imgFirst, imgCalls, besidesImage>>

\* for_each has returned: the method returns Ok(self.buffer.clone()), the
\* function returns and leaves the caller's buffer as it is.
ImgReturn ==
    /\ imgPc = "tasks"
    /\ imgPending = {}
    /\ imgPc' = "returned"
    /\ imgOutcome' = "ok"
    /\ imgOut' = IF imgImpl = "proc" THEN imgBuffer ELSE imgData
    /\ UNCHANGED <<imgOp, imgImpl, imgFactor, imgOrig, imgData, imgBuffer, imgPending,
                   imgTouched, imgFirst, imgCalls, besidesImage>>

\* Grayscale is applied to what grayscale handed back.
ImgGrayAgain ==
    /\ imgOp = "grayscale"
    /\ imgPc = "returned" /\ imgOutcome = "ok"
    /\ imgCalls = 1
    /\ imgFirst' = imgOut
    /\ imgData' = imgOut
    /\ imgPc' = "call" /\ imgOutcome' = "none"
    /\ UNCHANGED <<imgOp, imgImpl, imgFactor, imgOrig, imgBuffer, imgPending,
                   imgTouched, imgOut, imgCalls, besidesImage>>

ImgNext ==
    \/ ImgCall
    \/ \E k \in imgPending : ImgPixelTask(k)
    \/ ImgReturn
    \/ ImgGrayAgain

SpecImage == ImgInit /\ [][ImgNext]_vars

\* out has the length of src, every pixel of it has R = G = B, and every
\* alpha byte of it is the alpha byte of src.
GrayOf(out, src) ==
    /\ Len(out) = Len(src)
    /\ \A k \in 0..(PixelCount(src) - 1) :
          /\ out[4 * k + 1] = out[4 * k + 2] /\ out[4 * k + 2] = out[4 * k + 3]
          /\ out[4 * k + 4] = src[4 * k + 4]

ScaledClamped(v, f) ==
    IF f.k = "nan" THEN 0
    ELSE IF f.k = "inf" THEN (IF v = 0 \/ f.s < 0 THEN 0 ELSE 255)
    ELSE IF f.s < 0 THEN 0
    ELSE IF f.e >= 0 THEN Min(255, v * f.m * Pow2(f.e))
    ELSE Min(255, (v * f.m) \div Pow2(-f.e))

\* C9: on a buffer of whole pixels brightness hands back a buffer of the
\* same length, each R, G and B byte the input byte times the factor,
\* truncated and clamped to 0..255, each alpha byte unchanged; and
\* brightness([10,20,30,255, 200,210,220,0], 2.0) is
\* [20,40,60,255, 255,255,255,0].
C9_BrightnessScales ==
    (imgOp = "brightness" /\ Len(imgOrig) % 4 = 0 /\ imgPc = "returned") =>
        /\ imgOutcome = "ok"
        /\ Len(imgOut) = Len(imgOrig)
        /\ \A x \in 1..Len(imgOut) :
              imgOut[x] = IF x % 4 = 0 THEN imgOrig[x]
                          ELSE ScaledClamped(imgOrig[x], imgFactor)
        /\ (imgOrig = <<10, 20, 30, 255, 200, 210, 220, 0>> /\ imgFactor = F32Fin(1, 1, 1)) =>
              imgOut = <<20, 40, 60, 255, 255, 255, 255, 0>>

\* No product of a byte of the buffer and the factor is NaN.
ProductsAreNumbers ==
    /\ imgFactor.k # "nan"
    /\ imgFactor.k = "inf" => \A x \in 1..Len(imgOrig) : x % 4 = 0 \/ imgOrig[x] # 0

\* The calls of C9 in which no product is NaN do satisfy it.
BrightnessScalesForNumbers ==
    ProductsAreNumbers => C9_BrightnessScales

\* The calls of C9 made on the function do satisfy it.
BrightnessScalesInFunction ==
    imgImpl = "fn" => C9_BrightnessScales

\* The scenario of C9 has been run, on the method and on the function.
BrightnessScenarioRun ==
    /\ imgOp = "brightness" /\ imgPc = "returned"
    /\ imgOrig = <<10, 20, 30, 255, 200, 210, 220, 0>> /\ imgFactor = F32Fin(1, 1, 1)

\* C10: a pixel operation called with a buffer whose length is not divisible
\* by 4 returns the length error, and no byte of the caller's buffer or of
\* the processor's buffer is transformed, no pixel closure having run.
C10_BadLengthRejected ==
    (Len(imgOrig) % 4 # 0 /\ imgPc # "call") =>
        /\ imgPc = "returned" /\ imgOutcome = "err_len"
        /\ imgData = imgOrig /\ imgBuffer = <<>>
        /\ imgTouched = {}

\* The calls of C10 made on the WasmImageProcessor do satisfy it.
BadLengthRejectedByMethods ==
    imgImpl = "proc" => C10_BadLengthRejected

\* A function has returned normally from a buffer of 5 bytes and changed it.
BadLengthTransformed ==
    /\ imgImpl = "fn" /\ imgPc = "returned" /\ imgOutcome = "ok"
    /\ Len(imgOrig) = 5 /\ imgData # imgOrig

(***************************************************************************)
(* Batch operations: process_batch_operation and                           *)
(* WasmBatchProcessor::process_batch, which reuses two buffers, as does    *)
(* MemoryEfficientProcessor::process_inplace (buffer and scratch_space).   *)
(* An f64 is written in thousandths: 1000 is 1.0.                          *)
(***************************************************************************)
\* The elements of a batch: 1.0 and 4.0.
BatchVals == {1000, 4000}

\* The operation names tried; "tan" is a name that no match arm has.
BatchOps == {"square", "sqrt", "sin", "cos", "tan"}

\* The names with a match arm of their own.
\* process_inplace takes no name: what it computes is called "sqrt2" here.
KnownOps(impl) ==
    IF impl = "fn" THEN {"square", "sqrt", "sin", "cos"}
    ELSE IF impl = "proc" THEN {"square", "sqrt", "sin"}
    ELSE {"sqrt2"}

\* x * x, x.sqrt(), x.sin(), x.cos() and x.sqrt() * 2.0 on the elements of
\* the model, to three decimals.
BatchApply(op, x) ==
    IF op = "square" THEN (x * x) \div 1000
    ELSE IF op = "sqrt2" THEN (IF x = 1000 THEN 2000 ELSE 4000)
    ELSE IF op = "sqrt" THEN (IF x = 1000 THEN 1000 ELSE 2000)
    ELSE IF op = "sin" THEN (IF x = 1000 THEN 841 ELSE -757)
    ELSE (IF x = 1000 THEN 540 ELSE -654)

\* A buffer that is only grown to n elements: what it held stays (a
\* plausible slip for ClearResize: the clear() is left out).
ResizeNoClear(buf, n) ==
    IF Len(buf) >= n THEN buf ELSE buf \o [i \in 1..(n - Len(buf)) |-> 0]

\* buf.clear(); buf.resize(n, 0.0)
ClearResize(buf, n) == [i \in 1..n |-> 0]

BInit ==
    /\ SumIdle /\ QsIdle /\ FsIdle /\ MIdle /\ ImgIdle /\ MaxIdle /\ PIdle /\ PtIdle /\ UwIdle /\ WmIdle
    /\ bImpl \in {"fn", "proc", "inplace"}
    /\ bPath \in (IF bImpl = "proc" THEN {"pool", "seq"} ELSE {"pool"})
    /\ bOp \in (IF bImpl = "inplace" THEN {"sqrt2"} ELSE BatchOps)
    /\ bData \in SeqsUpTo(BatchVals, MaxBatchLen)
    /\ bInBuf = <<>> /\ bOutBuf = <<>> /\ bPrevIn = <<>> /\ bPrevOut = <<>>
    /\ bPending = {}
    /\ bPc = "call" /\ bOutcome = "none"
    /\ bResult = <<>>
    /\ bCalls = 0

\* The call up to the start of the loop.  process_batch first refills
\* input_buffer and clears and resizes output_buffer, then matches the name
\* (once, on the pool path); process_inplace does the same with buffer and
\* scratch_space and has no name to match; process_batch_operation matches
\* the name and copies the data for a name it does not know.
BCall ==
    /\ bPc = "call"
    /\ bCalls' = bCalls + 1
    /\ bPrevIn' = bInBuf /\ bPrevOut' = bOutBuf
    /\ IF bImpl # "fn"
       THEN /\ bInBuf' = bData
            /\ bOutBuf' = ClearResize(bOutBuf, Len(bData))
            /\ IF bPath = "pool" /\ bOp \notin KnownOps(bImpl)
               THEN bPc' = "returned" /\ bOutcome' = "err_unknown" /\ bPending' = {}
               ELSE bPc' = "tasks" /\ bOutcome' = "none" /\ bPending' = 1..Len(bData)
       ELSE /\ bInBuf' = bInBuf
            /\ bPc' = "tasks" /\ bOutcome' = "none"
            /\ IF bOp \in KnownOps(bImpl)
               THEN bOutBuf' = [i \in 1..Len(bData) |-> 0] /\ bPending' = 1..Len(bData)
               ELSE bOutBuf' = bData /\ bPending' = {}
    /\ UNCHANGED <<bImpl, bPath, bOp, bData, bResult, besidesBatch>>

\* The closure on element i (in any order on the pool, in index order in the
\* sequential loop, which returns the error from the match of its first
\* element, and in index order in the one chunk of 1024 of process_inplace).
BElemTask(i) ==
    /\ bPc = "tasks"
    /\ i \in bPending
    /\ (bPath = "seq" \/ bImpl = "inplace") => \A j \in bPending : i <= j
    /\ IF bOp \notin KnownOps(bImpl)
       THEN /\ bPc' = "returned" /\ bOutcome' = "err_unknown"
            /\ UNCHANGED <<bOutBuf, bPending>>
       ELSE /\ bOutBuf' = [bOutBuf EXCEPT ![i] = BatchApply(bOp, bData[i])]
            /\ bPending' = bPending \ {i}
            /\ UNCHANGED <<bPc, bOutcome>>
    /\ UNCHANGED <<bImpl, bPath, bOp, bData, bInBuf, bPrevIn, bPrevOut, bResult,
                   bCalls, besidesBatch>>

\* The loop is over: Ok(self.output_buffer.clone()), or the collected Vec.
BReturn ==
    /\ bPc = "tasks"
    /\ bPending = {}
    /\ bPc' = "returned" /\ bOutcome' = "ok"
    /\ bResult' = bOutBuf
    /\ UNCHANGED <<bImpl, bPath, bOp, bData, bInBuf, bOutBuf, bPrevIn, bPrevOut,
                   bPending, bCalls, besidesBatch>>

\* A second call, with a batch and a name of its own.
BAgain ==
    /\ bPc = "returned"
    /\ bCalls = 1
    /\ bOp' \in (IF bImpl = "inplace" THEN {"sqrt2"} ELSE BatchOps)
    /\ bData' \in SeqsUpTo(BatchVals, MaxBatchLen)
    /\ bPc' = "call" /\ bOutcome' = "none"
    /\ bResult' = <<>>
    /\ bOutBuf' = IF bImpl = "fn" THEN <<>> ELSE bOutBuf
    /\ UNCHANGED <<bImpl, bPath, bInBuf, bPrevIn, bPrevOut, bPending, bCalls,
                   besidesBatch>>

BNext ==
    \/ BCall
    \/ \E i \in bPending : BElemTask(i)
    \/ BReturn
    \/ BAgain

SpecBatch == BInit /\ [][BNext]_vars

\* C11: when an operation of a processor returns an error, the buffers the
\* processor owns are as they were before the call (the checks came before
\* any buffer was cleared, resized or written) and no task has run.
C11_FailedCallLeavesState ==
    (bImpl = "proc" /\ bPc = "returned" /\ bOutcome = "err_unknown") =>
        bInBuf = bPrevIn /\ bOutBuf = bPrevOut

\* The failed calls of the pool path of process_batch start no task: the
\* output buffer holds only the zeros of resize.
FailedBatchRanNoTask ==
    (bImpl = "proc" /\ bPath = "pool" /\ bPc = "returned" /\ bOutcome = "err_unknown") =>
        \A i \in 1..Len(bOutBuf) : bOutBuf[i] = 0

\* C12: a batch operation called with a name outside its supported set
\* returns the unsupported-operation error, for every batch, the empty one
\* included, and never hands the batch back unchanged.
C12_UnknownOperationRejected ==
    (bOp \notin KnownOps(bImpl) /\ bPc = "returned") =>
        bOutcome = "err_unknown" /\ bResult = <<>>

\* The calls of C12 on the pool path of process_batch do satisfy it.
UnknownOperationRejectedByPool ==
    (bImpl = "proc" /\ bPath = "pool") => C12_UnknownOperationRejected

\* C24: process_batch returns the same outcome on the pool path and on the
\* sequential path: for every batch and name the outcome is the one the pool
\* path gives, the results in input order for a known name and the error
\* for an unknown one, the empty batch included.
C24_PathsAgree ==
    (bImpl = "proc" /\ bPc = "returned") =>
        IF bOp \in KnownOps("proc")
        THEN /\ bOutcome = "ok"
             /\ bResult = [k \in 1..Len(bData) |-> BatchApply(bOp, bData[k])]
        ELSE bOutcome = "err_unknown"

\* The outcome C24 states is the pool path's, and the sequential path's for
\* every batch but the empty one.
PathsAgreeOnNonEmptyBatch ==
    (bPath = "pool" \/ bData # <<>>) => C24_PathsAgree

(***************************************************************************)
(* parallel_find_max: data.par_iter().copied().max_by(partial_cmp).  The   *)
(* input is split at midpoints as the workers take pieces; each piece is   *)
(* folded to an Option and the Options are reduced pairwise.  The f64      *)
(* elements are small integers, none of them NaN.                          *)
(***************************************************************************)
MaxVals == {-1, 0, 2}

\* The reduction that keeps the left operand whenever there is one (a
\* plausible slip for OptMax).
OptMaxKeepsLeft(oa, ob) == IF oa # <<>> THEN oa ELSE ob

\* The reduction of max_by over Options: of two values the left one only if
\* the comparison says Greater, else the right one.
OptMax(oa, ob) ==
    IF oa = <<>> THEN ob
    ELSE IF ob = <<>> THEN oa
    ELSE IF oa[1] > ob[1] THEN oa ELSE ob

\* The fold of the piece [lo, hi) of the input, from None.
RECURSIVE MaxFoldRange(_, _, _)
MaxFoldRange(s, lo, hi) ==
    IF hi <= lo THEN <<>>
    ELSE OptMax(MaxFoldRange(s, lo, hi - 1), <<s[hi]>>)

MaxInit ==
    /\ SumIdle /\ QsIdle /\ FsIdle /\ MIdle /\ ImgIdle /\ BIdle /\ PIdle /\ PtIdle /\ UwIdle /\ WmIdle
    /\ maxData \in SeqsUpTo(MaxVals, MaxFindLen)
    /\ maxParts = <<[lo |-> 0, hi |-> Len(maxData), st |-> "queued", val |-> <<>>]>>
    /\ maxLeaves = 0
    /\ maxPc = "running"
    /\ maxResult = <<>>

\* A queued piece of two or more elements is split at its midpoint.
MaxSplit(i) ==
    LET p == maxParts[i]
        mid == p.lo + (p.hi - p.lo) \div 2
    IN  /\ maxPc = "running"
        /\ p.st = "queued"
        /\ p.hi - p.lo >= 2
        /\ maxParts' = SubSeq(maxParts, 1, i - 1)
                       \o <<[p EXCEPT !.hi = mid], [p EXCEPT !.lo = mid]>>
                       \o SubSeq(maxParts, i + 1, Len(maxParts))
        /\ UNCHANGED <<maxData, maxLeaves, maxPc, maxResult, besidesMax>>

\* A queued piece is folded by the worker that holds it.
MaxFold(i) ==
    LET p == maxParts[i]
    IN  /\ maxPc = "running"
        /\ p.st = "queued"
        /\ maxParts' = [maxParts EXCEPT
                          ![i] = [p EXCEPT !.st = "done",
                                           !.val = MaxFoldRange(maxData, p.lo, p.hi)]]
        /\ maxLeaves' = maxLeaves + 1
        /\ UNCHANGED <<maxData, maxPc, maxResult, besidesMax>>

\* Two neighbouring folded pieces are reduced into one.
MaxReduce(i) ==
    LET p == maxParts[i]
        q == maxParts[i + 1]
    IN  /\ maxPc = "running"
        /\ p.st = "done" /\ q.st = "done"
        /\ maxParts' = SubSeq(maxParts, 1, i - 1)
                       \o <<[p EXCEPT !.hi = q.hi, !.val = OptMax(p.val, q.val)]>>
                       \o SubSeq(maxParts, i + 2, Len(maxParts))
        /\ UNCHANGED <<maxData, maxLeaves, maxPc, maxResult, besidesMax>>

\* The call returns once a single folded piece is left.
MaxReturn ==
    /\ maxPc = "running"
    /\ Len(maxParts) = 1
    /\ maxParts[1].st = "done"
    /\ maxPc' = "returned"
    /\ maxResult' = maxParts[1].val
    /\ UNCHANGED <<maxData, maxParts, maxLeaves, besidesMax>>

MaxNext ==
    \/ \E i \in 1..Len(maxParts) : MaxSplit(i)
    \/ \E i \in 1..Len(maxParts) : MaxFold(i)
    \/ \E i \in 1..(Len(maxParts) - 1) : MaxReduce(i)
    \/ MaxReturn

SpecMax == MaxInit /\ [][MaxNext]_vars

\* C13: parallel_find_max returns None exactly when the input is empty; for
\* a non-empty input it returns Some(m), m an element of the input that no
\* element exceeds, however the input was split.
C13_FindMax ==
    maxPc = "returned" =>
        /\ maxResult = <<>> <=> maxData = <<>>
        /\ maxData # <<>> =>
              /\ Len(maxResult) = 1
              /\ \E i \in 1..Len(maxData) : maxData[i] = maxResult[1]
              /\ \A i \in 1..Len(maxData) : maxData[i] <= maxResult[1]

\* C13 witness: the maximum of an input split into three or more pieces was
\* returned; it stands first in the input, before smaller elements.
C13_Witness ==
    /\ maxPc = "returned" /\ maxLeaves >= 3
    /\ maxResult = <<maxData[1]>>
    /\ \A i \in 2..Len(maxData) : maxData[i] < maxData[1]

(***************************************************************************)
(* Element-wise operations: parallel_map_square, parallel_filter_transform *)
(* and parallel_reduce of WasmParallelProcessor, and numa_aware_processing.*)
(* The input is cut into chunks (par_chunks(chunk_size) for numa, single   *)
(* elements else), the closures run in any order and the results are put   *)
(* together in chunk order.  An f64 result is written in thousandths.      *)
(***************************************************************************)
ParVals == {1, 2}

\* expensive_math_operation(x) = (x.sin() + x.cos()).sqrt().ln_1p() on the
\* elements of the model, to three decimals.
ExpensiveMath(x) == IF x = 1 THEN 777 ELSE 532

\* floor(sqrt(n)), by bisection over lo..hi.
RECURSIVE SqrtFloor(_, _, _)
SqrtFloor(n, lo, hi) ==
    IF lo >= hi THEN lo
    ELSE LET mid == (lo + hi + 1) \div 2
         IN  IF mid * mid <= n THEN SqrtFloor(n, mid, hi)
             ELSE SqrtFloor(n, lo, mid - 1)

\* The chunk size of an operation.
ParChunkSize ==
    IF pOp = "numa" THEN FsChunkSize(Len(pData), pThreads) ELSE 1

\* What the closures of an operation produce for a chunk.
ParApply(chunk) ==
    LET keep == {i \in 1..Len(chunk) : pOp # "filter_transform" \/ chunk[i] > pArg}
        RECURSIVE Kept(_)
        Kept(i) == IF i = 0 THEN <<>>
                   ELSE IF i \in keep THEN Append(Kept(i - 1), chunk[i])
                   ELSE Kept(i - 1)
        kept == Kept(Len(chunk))
    IN  [i \in 1..Len(kept) |->
            IF pOp = "numa" THEN ExpensiveMath(kept[i])
            ELSE IF pOp = "filter_transform" THEN kept[i] * 2 + 1
            ELSE kept[i] * kept[i]]

\* The outputs of the chunks 0 .. n-1, in chunk order.
RECURSIVE ParCollect(_, _)
ParCollect(out, n) ==
    IF n = 0 THEN <<>> ELSE ParCollect(out, n - 1) \o out[n]

ParInit ==
    /\ SumIdle /\ QsIdle /\ FsIdle /\ MIdle /\ ImgIdle /\ BIdle /\ MaxIdle /\ PtIdle /\ UwIdle /\ WmIdle
    /\ pOp \in {"map_square", "filter_transform", "reduce", "numa"}
    /\ pData \in SeqsUpTo(ParVals, MaxParLen)
    /\ pArg \in (IF pOp = "filter_transform" THEN {0, 1} ELSE {0})
    /\ pThreads \in (IF pOp = "numa" THEN 1..MaxThreads ELSE {1})
    /\ pPending = {}
    /\ pOut = <<>>
    /\ pRan = 0
    /\ pPc = "call"
    /\ pResult = <<>>

\* The call up to the start of the closures; parallel_reduce returns 0.0
\* for an empty slice at once.
ParCall ==
    LET n == NumChunks(Len(pData), ParChunkSize)
    IN  /\ pPc = "call"
        /\ IF pOp = "reduce" /\ pData = <<>>
           THEN pPc' = "returned" /\ pResult' = <<0>> /\ UNCHANGED <<pPending, pOut>>
           ELSE /\ pPc' = "tasks"
                /\ pPending' = 0..(n - 1)
                /\ pOut' = [i \in 1..n |-> <<>>]
                /\ pResult' = pResult
        /\ UNCHANGED <<pOp, pData, pArg, pThreads, pRan, besidesPar>>

\* The closures on chunk i.
ParChunkTask(i) ==
    /\ pPc = "tasks"
    /\ i \in pPending
    /\ pPending' = pPending \ {i}
    /\ pOut' = [pOut EXCEPT ![i + 1] = ParApply(Chunk(pData, ParChunkSize, i))]
    /\ pRan' = pRan + 1
    /\ UNCHANGED <<pOp, pData, pArg, pThreads, pPc, pResult, besidesPar>>

\* collect(), or for parallel_reduce the square root of the sum of the
\* squares.
ParReturn ==
    LET all == ParCollect(pOut, Len(pOut))
    IN  /\ pPc = "tasks"
        /\ pPending = {}
        /\ pPc' = "returned"
        /\ pResult' = IF pOp = "reduce"
                      THEN <<SqrtFloor(LocalSum(all) * 1000000, 0, 46340)>>
                      ELSE all
        /\ UNCHANGED <<pOp, pData, pArg, pThreads, pPending, pOut, pRan, besidesPar>>

ParNext ==
    \/ ParCall
    \/ \E i \in pPending : ParChunkTask(i)
    \/ ParReturn

SpecPar == ParInit /\ [][ParNext]_vars

\* C14: the chunks of par_chunks(max(1, len / p)) are an ordered sequence of
\* disjoint half-open ranges that covers [0, len) exactly, each of the chunk
\* size except possibly a shorter last one, and numa_aware_processing
\* returns one output per input element, in input order.
C14_NumaPartition ==
    pOp = "numa" =>
        LET len == Len(pData)
            c == FsChunkSize(len, pThreads)
            n == NumChunks(len, c)
            R(i) == ChunkRange(len, c, i)
        IN  /\ c >= 1
            /\ n = 0 <=> len = 0
            /\ n > 0 => /\ R(0)[1] = 0 /\ R(n - 1)[2] = len
                        /\ R(n - 1)[2] - R(n - 1)[1] \in 1..c
            /\ \A i \in 0..(n - 2) :
                  R(i)[2] = R(i + 1)[1] /\ R(i)[2] - R(i)[1] = c
            /\ pPc = "returned" =>
                  pResult = [k \in 1..len |-> ExpensiveMath(pData[k])]

\* C14 witness: numa_aware_processing has returned from a slice that two
\* threads cut into chunks of two elements and a shorter last chunk.
C14_Witness ==
    /\ pOp = "numa" /\ pPc = "returned" /\ pThreads = 2
    /\ FsChunkSize(Len(pData), pThreads) = 2
    /\ Len(pData) % 2 = 1
    /\ \E i, j \in 1..Len(pData) : pData[i] # pData[j]

(***************************************************************************)
(* The slice operations side by side, each on a short input: one of        *)
(* parallel_sum, parallel_quicksort, avoid_false_sharing and the           *)
(* element-wise operations is called.                                      *)
(***************************************************************************)
ShortInit ==
    \/ SumInit /\ PIdle /\ Len(sumData) <= MaxShortLen
    \/ QsInit /\ PIdle /\ Len(qsInit) <= SEQUENTIAL_THRESHOLD + 1
    \/ FsInit /\ PIdle /\ Len(fsData) <= MaxShortLen
    \/ ParInit /\ Len(pData) <= MaxShortLen

ShortNext == SumNext \/ QsNext \/ FsNext \/ ParNext

SpecShort == ShortInit /\ [][ShortNext]_vars

\* C15: on an empty input no operation creates a task and each returns its
\* identity or empty result: parallel_sum 0, parallel_map_square,
\* parallel_filter_transform and numa_aware_processing an empty sequence,
\* parallel_reduce 0.0, avoid_false_sharing 0, and parallel_quicksort leaves
\* the slice empty without forking.
C15_EmptyInput ==
    /\ (sumPc # "idle" /\ sumData = <<>>) =>
          /\ Len(sumParts) = 1
          /\ sumPc = "returned" => sumResult = 0
    /\ (pPc \notin {"idle", "call"} /\ pData = <<>>) =>
          /\ pPending = {} /\ pRan = 0
          /\ pPc = "returned" => pResult = (IF pOp = "reduce" THEN <<0>> ELSE <<>>)
    /\ (fsPc # "idle" /\ fsData = <<>>) =>
          /\ fsPending = {}
          /\ \A k \in 1..fsThreads : fsWrites[k] = {}
          /\ fsPc = "returned" => fsResult = 0
    /\ (qsPc # "idle" /\ qsInit = <<>>) =>
          /\ DOMAIN qsTasks = {<<0, 0>>}
          /\ qsData = <<>>

\* C15 witness: numa_aware_processing has returned from an empty slice.
C15_Witness ==
    /\ pOp = "numa" /\ pData = <<>> /\ pPc = "returned" /\ pThreads = MaxThreads

(***************************************************************************)
(* The processors that reuse buffers, side by side: process_inplace or     *)
(* process_batch called twice, or a method of WasmImageProcessor.          *)
(***************************************************************************)
ReuseInit ==
    \/ BInit /\ bImpl # "fn"
    \/ ImgInit /\ imgImpl = "proc"

ReuseNext == BNext \/ ImgNext

SpecReuse == ReuseInit /\ [][ReuseNext]_vars

RECURSIVE UnevenWork(_)
UnevenWork(size) == IF size = 0 THEN 0 ELSE UnevenWork(size - 1) + (size - 1)

\* The results in the order the closures returned (a plausible slip for
\* UwCollect: a push per completion instead of a write per index).
UwCollectByCompletion(done) == [k \in 1..Len(done) |-> done[k][2]]

\* collect() of an indexed parallel iterator: the result of item i is
\* written at position i, whenever it arrives.
UwCollect(done) ==
    [i \in 1..Len(done) |->
        LET k == CHOOSE k \in 1..Len(done) : done[k][1] = i IN done[k][2]]

UwInit ==
    /\ SumIdle /\ QsIdle /\ FsIdle /\ MIdle /\ ImgIdle /\ BIdle /\ MaxIdle /\ PIdle /\ PtIdle /\ WmIdle
    /\ uwTasks \in SeqsUpTo(0..MaxTaskSize, MaxTasks)
    /\ uwSt = [i \in 1..Len(uwTasks) |-> "todo"]
    /\ uwCount = 0
    /\ uwTicket = [i \in 1..Len(uwTasks) |-> -1]
    /\ uwDone = <<>>
    /\ uwPc = "running"
    /\ uwResult = <<>>

\* The closure of task i computes its result.
UwFold(i) ==
    /\ uwPc = "running"
    /\ uwSt[i] = "todo"
    /\ uwSt' = [uwSt EXCEPT ![i] = "folded"]
    /\ UNCHANGED <<uwTasks, uwCount, uwTicket, uwDone, uwPc, uwResult, besidesUneven>>

\* completed_count.fetch_add(1, Relaxed): one atomic read-modify-write that
\* returns the value before; the closure then returns its result.
UwFetchAdd(i) ==
    /\ uwPc = "running"
    /\ uwSt[i] = "folded"
    /\ uwTicket' = [uwTicket EXCEPT ![i] = uwCount]
    /\ uwCount' = uwCount + 1
    /\ uwSt' = [uwSt EXCEPT ![i] = "counted"]
    /\ uwDone' = Append(uwDone, <<i, UnevenWork(uwTasks[i])>>)
    /\ UNCHANGED <<uwTasks, uwPc, uwResult, besidesUneven>>

\* Every closure has returned: collect() hands back the Vec.
UwReturn ==
    /\ uwPc = "running"
    /\ \A i \in 1..Len(uwTasks) : uwSt[i] = "counted"
    /\ uwResult' = UwCollect(uwDone)
    /\ uwPc' = "returned"
    /\ UNCHANGED <<uwTasks, uwSt, uwCount, uwTicket, uwDone, besidesUneven>>

UwNext ==
    \/ \E i \in 1..Len(uwTasks) : UwFold(i)
    \/ \E i \in 1..Len(uwTasks) : UwFetchAdd(i)
    \/ UwReturn

SpecUneven == UwInit /\ [][UwNext]_vars

\* C26: under every interleaving of the closures the values fetch_add
\* returned are pairwise distinct and are 0 .. k-1 for the k closures that
\* made the call; when parallel_uneven_work returns the counter is the
\* number of tasks, the values returned are exactly 0 .. n-1, and results[i]
\* is the result of tasks[i] for every i.
C26_CountsAndOrder ==
    LET counted == {i \in 1..Len(uwTasks) : uwSt[i] = "counted"}
    IN  /\ \A i, j \in counted : i # j => uwTicket[i] # uwTicket[j]
        /\ {uwTicket[i] : i \in counted} = 0..(uwCount - 1)
        /\ uwCount = Cardinality(counted)
        /\ uwPc = "returned" =>
              /\ uwCount = Len(uwTasks)
              /\ {uwTicket[i] : i \in 1..Len(uwTasks)} = 0..(Len(uwTasks) - 1)
              /\ uwResult = [i \in 1..Len(uwTasks) |-> UnevenWork(uwTasks[i])]

\* C26 witness: three tasks with three different results have returned and
\* the first task was the last to complete.
C26_Witness ==
    /\ uwPc = "returned"
    /\ Len(uwTasks) = 3
    /\ uwTicket[1] = 2 /\ uwTicket[3] = 0
    /\ Cardinality({uwResult[i] : i \in 1..3}) = 3

(***************************************************************************)
(* WasmModule: process_data (reverse, XOR 0xAA, cache under sync_<len>),   *)
(* process_data_async (looks up async_<len>, else a future that runs       *)
(* later), cache_size and clear_cache.                                     *)
(***************************************************************************)
\* The bytes of the inputs; the outputs hold other bytes as well.
ByteVals == {1, 170}

\* a ^ b on bytes.
RECURSIVE XorBits(_, _, _)
XorBits(a, b, n) ==
    IF n = 0 THEN 0
    ELSE (((a % 2) + (b % 2)) % 2) + 2 * XorBits(a \div 2, b \div 2, n - 1)
XorByte(a, b) == XorBits(a, b, 8)

Reverse(s) == [i \in 1..Len(s) |-> s[Len(s) + 1 - i]]

\* The transformation without data.reverse() (a plausible slip for
\* TransformData).
TransformDataNoReverse(data) == [i \in 1..Len(data) |-> XorByte(data[i], 170)]

\* data.reverse(); for byte in &mut data { *byte ^= 0xAA }
TransformData(data) ==
    LET r == Reverse(data) IN [i \in 1..Len(r) |-> XorByte(r[i], 170)]

\* *byte = byte.wrapping_add(i as u8), i counting from 0
AsyncTransform(data) == [i \in 1..Len(data) |-> (data[i] + ((i - 1) % 256)) % 256]

\* A key that leaves the length out (a plausible slip for SyncKey).
SyncKeyNoLen(len) == "sync_"

\* format!("sync_{}", data.len())
SyncKey(len) == "sync_" \o ToString(len)

\* The lookup key built with the prefix of the other method (a plausible
\* slip for AsyncKey).
AsyncKeyAsSync(len) == "sync_" \o ToString(len)

\* format!("async_{}", input_data.len())
AsyncKey(len) == "async_" \o ToString(len)

\* cache_size(): self.processing_cache.len()
CacheSize == Cardinality(DOMAIN wmCache)

\* WasmModule::new()
WmInit ==
    /\ SumIdle /\ QsIdle /\ FsIdle /\ MIdle /\ ImgIdle /\ BIdle /\ MaxIdle /\ PIdle /\ PtIdle /\ UwIdle
    /\ wmCache = <<>> /\ wmLast = <<>>
    /\ wmIn = <<>> /\ wmOut = <<>> /\ wmPrevIn = <<>> /\ wmPrevOut = <<>>
    /\ wmOp = "new"
    /\ wmPending = <<>> /\ wmResolved = <<>>
    /\ wmCalls = 0

\* process_data(input): transform_data transforms, caches a clone under the
\* key of the result's length and returns the result.
WmProcessData(input) ==
    LET out == TransformData(input)
    IN  /\ wmOp # "idle" /\ wmCalls < MaxCalls
        /\ wmCache' = (SyncKey(Len(out)) :> out) @@ wmCache
        /\ wmLast' = (Len(input) :> out) @@ wmLast
        /\ wmPrevIn' = wmIn /\ wmPrevOut' = wmOut
        /\ wmIn' = input /\ wmOut' = out
        /\ wmOp' = "process"
        /\ wmCalls' = wmCalls + 1
        /\ UNCHANGED <<wmPending, wmResolved, besidesModule>>

\* process_data_async(input): a hit of the cache resolves at once, else a
\* future is made that runs later.
WmProcessDataAsync(input) ==
    LET key == AsyncKey(Len(input))
    IN  /\ wmOp # "idle" /\ wmCalls < MaxCalls
        /\ IF key \in DOMAIN wmCache
           THEN /\ wmOp' = "async_cached"
                /\ wmResolved' = wmCache[key]
                /\ UNCHANGED wmPending
           ELSE /\ wmOp' = "async"
                /\ wmPending' = Append(wmPending, input)
                /\ UNCHANGED wmResolved
        /\ wmCalls' = wmCalls + 1
        /\ UNCHANGED <<wmCache, wmLast, wmIn, wmOut, wmPrevIn, wmPrevOut, besidesModule>>

\* A future runs (after its timeout): async_transform, and the promise
\* resolves to its result.
WmResolve(k) ==
    /\ k \in 1..Len(wmPending)
    /\ wmResolved' = AsyncTransform(wmPending[k])
    /\ wmPending' = SubSeq(wmPending, 1, k - 1) \o SubSeq(wmPending, k + 1, Len(wmPending))
    /\ UNCHANGED <<wmCache, wmLast, wmIn, wmOut, wmPrevIn, wmPrevOut, wmOp, wmCalls,
                   besidesModule>>

\* clear_cache()
WmClearCache ==
    /\ wmOp # "idle" /\ wmCalls < MaxCalls
    /\ wmCache' = <<>> /\ wmLast' = <<>>
    /\ wmOp' = "clear"
    /\ wmCalls' = wmCalls + 1
    /\ UNCHANGED <<wmIn, wmOut, wmPrevIn, wmPrevOut, wmPending, wmResolved,
                   besidesModule>>

\* The inputs: fresh bytes, or what process_data returned last.
WmInputs == SeqsUpTo(ByteVals, MaxBytes) \cup {wmOut}

WmNext ==
    \/ \E input \in WmInputs : WmProcessData(input)
    \/ \E input \in WmInputs : WmProcessDataAsync(input)
    \/ \E k \in 1..Len(wmPending) : WmResolve(k)
    \/ WmClearCache

SpecModule == WmInit /\ [][WmNext]_vars

\* C27: after any sequence of calls, cache_size is the number of distinct
\* input lengths given to process_data since the last clear_cache (or since
\* new); after clear_cache it is 0; and the entry stored for a length is the
\* result of the latest process_data call on an input of that length.
C27_CacheSize ==
    /\ CacheSize = Cardinality(DOMAIN wmLast)
    /\ wmOp = "clear" => CacheSize = 0
    /\ \A n \in DOMAIN wmLast :
          /\ SyncKey(n) \in DOMAIN wmCache
          /\ wmCache[SyncKey(n)] = wmLast[n]
    /\ wmOp = "process" => wmCache[SyncKey(Len(wmIn))] = wmOut

\* C27 witness: after a call on another length, process_data was called
\* twice on inputs of one length, and the second result replaced the first:
\* three calls, two entries.
C27_Witness ==
    /\ wmOp = "process" /\ wmCalls = 3
    /\ CacheSize = 2
    /\ Len(wmPrevIn) = Len(wmIn)
    /\ Len(wmIn) = MaxBytes
    /\ wmOut # wmPrevOut

\* C28: process_data_async leaves the cache as it is; the cache never holds
\* a key async_<len> (every key is sync_<len>); so no call of
\* process_data_async returns a cached result: each makes a future that runs
\* the asynchronous transformation.
C28_AsyncNeverCached ==
    /\ [] (/\ \A n \in 0..MaxBytes : AsyncKey(n) \notin DOMAIN wmCache
           /\ DOMAIN wmCache \subseteq {SyncKey(n) : n \in 0..MaxBytes}
           /\ wmOp # "async_cached")
    /\ [][(wmCalls' # wmCalls /\ wmOp' \in {"async", "async_cached"}) =>
             /\ wmCache' = wmCache
             /\ wmOp' = "async"
             /\ Len(wmPending') = Len(wmPending) + 1]_vars

\* C28 witness: process_data_async was called on an input whose length has
\* an entry in the cache (made by process_data), and its future is waiting.
C28_Witness ==
    /\ wmOp = "async"
    /\ wmPending # <<>>
    /\ SyncKey(Len(wmPending[Len(wmPending)])) \in DOMAIN wmCache
    /\ Len(wmPending[Len(wmPending)]) = MaxBytes

\* C29: process_data returns the bytes of its input in reverse order, each
\* XORed with 0xAA, in the same number; and called on what it returned, it
\* returns the input of the call before.
C29_Involution ==
    wmOp = "process" =>
        /\ Len(wmOut) = Len(wmIn)
        /\ \A i \in 1..Len(wmIn) : wmOut[i] = XorByte(wmIn[Len(wmIn) + 1 - i], 170)
        /\ wmIn = wmPrevOut => wmOut = wmPrevIn

\* C29 witness: process_data was called on what it had returned for two
\* different bytes, and returned them.
C29_Witness ==
    /\ wmOp = "process" /\ wmCalls = 2
    /\ wmIn = wmPrevOut
    /\ Len(wmIn) = 2 /\ wmPrevIn[1] # wmPrevIn[2]
    /\ wmOut = wmPrevIn /\ wmOut # wmIn

=============================================================================
